---- MODULE Spec2Model ----
(***************************************************************************)
(* Model of chronomatrix's AnalogClock (src/src/analog_clock.rs): the      *)
(* per-clock animation state, set_angles, set_angles_immediate and the     *)
(* 60 FPS update_animation callback and the colours of draw; and of one    *)
(* DigitDisplay (src/src/digit_display.rs), a 6x4 grid of such clocks set   *)
(* from the digit patterns of src/src/digit_patterns.rs.                    *)
(*                                                                         *)
(* Angles are f64 degrees in the source.  Here every cumulative angle is   *)
(* an integer number of 1/Scale degrees, with Scale the square of the      *)
(* animation duration, so that start + (target - start) * eased is exact.  *)
(* Raw angles (hour_angle, minute_angle, last_*_angle) are whole degrees.  *)
(* Time is an integer number of time units; Instant::now() is `now`.       *)
(***************************************************************************)
EXTENDS Integers, Sequences, FiniteSets, TLC

\* ---- bounds of the model ----
\* number of set_angles / set_angles_immediate calls in one behaviour
MaxSets == 3
\* last instant the model's wall clock reaches
MaxTime == 5
\* the non-zero configured animation duration, in time units
AnimDuration == 4

\* number of set_digit / set_digit_immediate calls in one behaviour
MaxDigitSets == 2

\* number of clocks in the group of clocks that are set and ticked one by one
NumClocks == 2
\* number of set_angles / set_angles_immediate calls on the group in one behaviour
MaxGroupSets == 2

\* the scalar values 1..MaxScalar a TOML table of the merge model can hold
MaxScalar == 2

\* longest `include` array of a main configuration file
MaxIncludes == 3

\* number of file-system events sent to the watcher thread in one behaviour
MaxEvents == 4
\* last instant of the watcher's clock, in steps of 100 ms
MaxInstant == 8

\* number of timer ticks and reloads of the window in one behaviour
MaxWindowSteps == 3

\* number of pieces (of one or two characters) a colour string is built from
MaxPieces == 4

\* number of update_time / update_time_immediate calls in one behaviour
MaxUpdates == 3

\* ---- program constants ----
INACTIVE_HOUR_ANGLE == 135
INACTIVE_MINUTE_ANGLE == 315
ALT_INACTIVE_HOUR_ANGLE == 225
ALT_INACTIVE_MINUTE_ANGLE == 225

\* animation_duration_ms of a clock built by Default
DEFAULT_ANIMATION_DURATION_MS == 300

\* Option<T>: None is the empty sequence, Some(v) the one-element sequence
None == <<>>
Some(v) == <<v>>

\* cumulative angles are stored in units of 1/Scale degree
Scale == AnimDuration * AnimDuration
Deg(a) == a * Scale

\* durations a clock can be constructed with (AnalogClock::new)
Durations == {0, AnimDuration}

\* (hour, minute) arguments in the documented range 0..359
InRangePairs ==
    { <<350, 10>>, <<10, 20>>,
      <<135, 315>>, <<225, 225>>, <<135, 225>> }

\* (hour, minute) arguments outside the documented range
OutOfRangePairs == { <<-10, 370>>, <<-350, 720>> }

RawPairs == InRangePairs \cup OutOfRangePairs

\* (hour, minute) arguments of set_angles_immediate
ImmediatePairs == { <<10, 20>>, <<225, 225>>, <<-10, 370>> }

VARIABLES
    hour_angle, minute_angle,
    cumulative_hour_angle, cumulative_minute_angle,
    target_cumulative_hour, target_cumulative_minute,
    last_hour_angle, last_minute_angle,
    is_active, target_is_active,
    animation_duration_ms, animation_start_time,
    start_cumulative_hour, start_cumulative_minute,
    now,          \* Instant::now()
    draw_queued,  \* the last step called queue_draw()
    sets,         \* number of set_angles / set_angles_immediate calls so far
    last_set,     \* the last setter that ran: "none", "set_angles", "set_angles_immediate"
    last_op       \* the last step: "new", "set_angles", "set_angles_immediate", "tick", "advance"

\* one DigitDisplay: its 6x4 grid of AnalogClocks
VARIABLES
    clocks,      \* DigitDisplay.clocks: (row, col) -> the fields of that AnalogClock
    calls,       \* (row, col) -> number of set_angles / set_angles_immediate calls received
    digit_op,    \* the last step on the display: [op, digit]
    digit_sets   \* number of set_digit / set_digit_immediate calls so far

display == << clocks, calls, digit_op, digit_sets >>

\* one ClockDisplay: its DigitDisplays, each seen through the calls it receives
VARIABLES
    digits,      \* ClockDisplay.digits: position -> [last: the last call received, count]
    time_str,    \* the string formatted by the last update
    update_op,   \* the last update: "none", "update_time", "update_time_immediate"
    updates      \* number of updates so far

panel == << digits, time_str, update_op, updates >>

\* clocks of one display that are set and ticked one by one, each by its own timer
VARIABLES
    stepped,      \* the last step on the group: [op, cell]
    group_sets,   \* number of set_angles / set_angles_immediate calls on the group so far
    ticked,       \* the clocks whose timer has fired since the last set or advance of time
    sweep_start   \* the clocks as they were when that round of timers began

sweep == << stepped, group_sets, ticked, sweep_start >>

\* config.rs: one call of deep_merge_toml
VARIABLES
    merge_base,     \* the table behind `base: &mut Table`
    merge_overlay,  \* the table passed as `overlay`
    merge_done      \* deep_merge_toml has returned

merging == << merge_base, merge_overlay, merge_done >>

\* config.rs: the configuration files and one call of Config::load or
\* Config::load_or_default
VARIABLES
    files,        \* the file system: canonical path -> the file found there
    load_result,  \* None, or Some of what the call returned
    config_op     \* the call made: "none", "load", "load_or_default"

loading == << files, load_result, config_op >>

\* config.rs: one call of parse_hex_color
VARIABLES
    hex_string,   \* the argument `hex`, a sequence of characters
    hex_color        \* None, or Some of the outcome of the call

parsing == << hex_string, hex_color >>

\* main.rs: the watcher thread, the main-loop poll and what they share
VARIABLES
    instant,         \* Instant::now(), in steps of TimeStep ms
    disk_version,    \* number of modifications of the watched config file so far
    rx,              \* the events sent by the notify watcher and not yet received
    watcher_thread,  \* position of the spawned thread, its event and wake-up instant
    main_loop,       \* position of the poll callback on the GTK main thread
    mutexes,         \* the owner of the mutex of reload_state and of watched_files
    reload_state,    \* ReloadState: should_reload and last_reload
    watched_files,   \* the set behind the watched_files mutex
    shown_version,   \* the modification count read by the last Config::load_or_default
    reloads,         \* number of reload_config calls so far
    written,         \* number of events sent so far
    cause            \* the event instant behind the pending request and behind the last reload

reloading == << instant, disk_version, rx, watcher_thread, main_loop, mutexes,
                reload_state, watched_files, shown_version, reloads, written, cause >>

\* main.rs: the window, the shared ClockDisplay cell and the one-second timer
VARIABLES
    window_child,    \* identity of the display set as the window's child
    clock_display,   \* content of the Rc<RefCell<ClockDisplay>>: identity and digits
    timer_target,    \* None, or Some identity of the display the last timer tick updated
    window_op,       \* the last operation on the window
    window_steps     \* number of timer ticks and reloads so far

windowing == << window_child, clock_display, timer_target, window_op, window_steps >>

\* the state outside the clocks and the digit displays
app == << panel, sweep, merging, loading, parsing, reloading, windowing >>

clock ==
    << hour_angle, minute_angle,
       cumulative_hour_angle, cumulative_minute_angle,
       target_cumulative_hour, target_cumulative_minute,
       last_hour_angle, last_minute_angle,
       is_active, target_is_active,
       animation_duration_ms, animation_start_time,
       start_cumulative_hour, start_cumulative_minute >>

vars == << clock, now, draw_queued, sets, last_set, last_op, display, app >>

\* f64 `%`: the remainder has the sign of the dividend
FRem(a, b) == IF a >= 0 THEN a % b ELSE -((-a) % b)

\* variant of the rest-position test that knows only the primary rest pair
target_active_primary_only(hour, minute) ==
    ~(hour = INACTIVE_HOUR_ANGLE /\ minute = INACTIVE_MINUTE_ANGLE)

\* the rest-position test of set_angles and set_angles_immediate
target_active(hour, minute) ==
    ~( (hour = INACTIVE_HOUR_ANGLE /\ minute = INACTIVE_MINUTE_ANGLE)
       \/ (hour = ALT_INACTIVE_HOUR_ANGLE /\ minute = ALT_INACTIVE_MINUTE_ANGLE) )

\* variant of calculate_target_cumulative without the `diff += 360.0` wrap
calculate_target_cumulative_no_wrap(new_angle, last_angle, current_cumulative) ==
    IF last_angle # None
    THEN LET normalized_last == FRem(last_angle[1], 360)
             normalized_new == FRem(new_angle, 360)
             diff == normalized_new - normalized_last
         IN [cumulative |-> current_cumulative + Deg(diff),
             last |-> Some(normalized_new)]
    ELSE [cumulative |-> Deg(new_angle), last |-> Some(new_angle)]

\* variant of calculate_target_cumulative that reduces the first raw angle too
calculate_target_cumulative_first_reduced(new_angle, last_angle, current_cumulative) ==
    IF last_angle # None
    THEN LET normalized_last == FRem(last_angle[1], 360)
             normalized_new == FRem(new_angle, 360)
             diff0 == normalized_new - normalized_last
             diff == IF diff0 < 0 THEN diff0 + 360 ELSE diff0
         IN [cumulative |-> current_cumulative + Deg(diff),
             last |-> Some(normalized_new)]
    ELSE [cumulative |-> Deg(FRem(new_angle, 360)), last |-> Some(FRem(new_angle, 360))]

\* calculate_target_cumulative for one hand: the returned cumulative target
\* (in 1/Scale degrees) and the value it leaves in last_*_angle
calculate_target_cumulative(new_angle, last_angle, current_cumulative) ==
    IF last_angle # None
    THEN LET normalized_last == FRem(last_angle[1], 360)
             normalized_new == FRem(new_angle, 360)
             diff0 == normalized_new - normalized_last
             diff == IF diff0 < 0 THEN diff0 + 360 ELSE diff0
         IN [cumulative |-> current_cumulative + Deg(diff),
             last |-> Some(normalized_new)]
    ELSE [cumulative |-> Deg(new_angle), last |-> Some(new_angle)]

\* variant of ease_in_out whose second half mirrors the first without the offset
ease_in_out_no_offset(elapsed, duration) ==
    IF 2 * elapsed < duration
    THEN 2 * elapsed * elapsed
    ELSE (4 * duration - 2 * elapsed) * elapsed - 2 * duration * duration

\* ease_in_out(elapsed / duration) as a numerator over duration^2
ease_in_out(elapsed, duration) ==
    IF 2 * elapsed < duration
    THEN 2 * elapsed * elapsed
    ELSE (4 * duration - 2 * elapsed) * elapsed - duration * duration

\* variant of interpolate that adds the eased share to the target
interpolate_from_target(start, target, elapsed, duration) ==
    target + ((target - start) * ease_in_out(elapsed, duration)) \div (duration * duration)

\* start + (target - start) * eased_progress
interpolate(start, target, elapsed, duration) ==
    start + ((target - start) * ease_in_out(elapsed, duration)) \div (duration * duration)

\* variant of set_angles that starts no animation for a zero angular delta
set_angles_skips_zero_delta(hour, minute) ==
    LET th == calculate_target_cumulative(hour, last_hour_angle, cumulative_hour_angle)
        tm == calculate_target_cumulative(minute, last_minute_angle, cumulative_minute_angle)
    IN /\ last_hour_angle' = th.last
       /\ last_minute_angle' = tm.last
       /\ start_cumulative_hour' = cumulative_hour_angle
       /\ start_cumulative_minute' = cumulative_minute_angle
       /\ target_cumulative_hour' = th.cumulative
       /\ target_cumulative_minute' = tm.cumulative
       /\ animation_start_time' = (IF th.cumulative = cumulative_hour_angle
                                     /\ tm.cumulative = cumulative_minute_angle
                                  THEN animation_start_time ELSE Some(now))
       /\ hour_angle' = hour
       /\ minute_angle' = minute
       /\ target_is_active' = target_active(hour, minute)
       /\ draw_queued' = FALSE
       /\ UNCHANGED << cumulative_hour_angle, cumulative_minute_angle,
                       is_active, animation_duration_ms >>

\* variant of set_angles that switches is_active at once
set_angles_switches_active(hour, minute) ==
    LET th == calculate_target_cumulative(hour, last_hour_angle, cumulative_hour_angle)
        tm == calculate_target_cumulative(minute, last_minute_angle, cumulative_minute_angle)
    IN /\ last_hour_angle' = th.last
       /\ last_minute_angle' = tm.last
       /\ start_cumulative_hour' = cumulative_hour_angle
       /\ start_cumulative_minute' = cumulative_minute_angle
       /\ target_cumulative_hour' = th.cumulative
       /\ target_cumulative_minute' = tm.cumulative
       /\ animation_start_time' = Some(now)
       /\ hour_angle' = hour
       /\ minute_angle' = minute
       /\ target_is_active' = target_active(hour, minute)
       /\ is_active' = target_active(hour, minute)
       /\ draw_queued' = FALSE
       /\ UNCHANGED << cumulative_hour_angle, cumulative_minute_angle,
                       animation_duration_ms >>

\* variant of set_angles that restarts the interpolation from the old target
set_angles_starts_at_old_target(hour, minute) ==
    LET th == calculate_target_cumulative(hour, last_hour_angle, cumulative_hour_angle)
        tm == calculate_target_cumulative(minute, last_minute_angle, cumulative_minute_angle)
    IN /\ last_hour_angle' = th.last
       /\ last_minute_angle' = tm.last
       /\ start_cumulative_hour' = target_cumulative_hour
       /\ start_cumulative_minute' = target_cumulative_minute
       /\ target_cumulative_hour' = th.cumulative
       /\ target_cumulative_minute' = tm.cumulative
       /\ animation_start_time' = Some(now)
       /\ hour_angle' = hour
       /\ minute_angle' = minute
       /\ target_is_active' = target_active(hour, minute)
       /\ draw_queued' = FALSE
       /\ UNCHANGED << cumulative_hour_angle, cumulative_minute_angle,
                       is_active, animation_duration_ms >>

\* set_angles: new targets, animation restarted from the current angles
set_angles(hour, minute) ==
    LET th == calculate_target_cumulative(hour, last_hour_angle, cumulative_hour_angle)
        tm == calculate_target_cumulative(minute, last_minute_angle, cumulative_minute_angle)
    IN /\ last_hour_angle' = th.last
       /\ last_minute_angle' = tm.last
       /\ start_cumulative_hour' = cumulative_hour_angle
       /\ start_cumulative_minute' = cumulative_minute_angle
       /\ target_cumulative_hour' = th.cumulative
       /\ target_cumulative_minute' = tm.cumulative
       /\ animation_start_time' = Some(now)
       /\ hour_angle' = hour
       /\ minute_angle' = minute
       /\ target_is_active' = target_active(hour, minute)
       /\ draw_queued' = FALSE
       /\ UNCHANGED << cumulative_hour_angle, cumulative_minute_angle,
                       is_active, animation_duration_ms >>

\* variant of set_angles_immediate that leaves a running animation in place
set_angles_immediate_keeps_animation(hour, minute) ==
    /\ hour_angle' = hour
    /\ minute_angle' = minute
    /\ cumulative_hour_angle' = Deg(hour)
    /\ cumulative_minute_angle' = Deg(minute)
    /\ target_cumulative_hour' = Deg(hour)
    /\ target_cumulative_minute' = Deg(minute)
    /\ last_hour_angle' = Some(hour)
    /\ last_minute_angle' = Some(minute)
    /\ is_active' = target_active(hour, minute)
    /\ target_is_active' = target_active(hour, minute)
    /\ draw_queued' = TRUE
    /\ UNCHANGED << animation_duration_ms, animation_start_time,
                    start_cumulative_hour, start_cumulative_minute >>

set_angles_immediate(hour, minute) ==
    /\ hour_angle' = hour
    /\ minute_angle' = minute
    /\ cumulative_hour_angle' = Deg(hour)
    /\ cumulative_minute_angle' = Deg(minute)
    /\ target_cumulative_hour' = Deg(hour)
    /\ target_cumulative_minute' = Deg(minute)
    /\ last_hour_angle' = Some(hour)
    /\ last_minute_angle' = Some(minute)
    /\ animation_start_time' = None
    /\ is_active' = target_active(hour, minute)
    /\ target_is_active' = target_active(hour, minute)
    /\ draw_queued' = TRUE
    /\ UNCHANGED << animation_duration_ms, start_cumulative_hour, start_cumulative_minute >>

\* start_time.elapsed()
Elapsed == now - animation_start_time[1]

\* variant of the interpolating branch that leaves out queue_draw()
interpolate_step_without_redraw(elapsed) ==
    /\ cumulative_hour_angle' =
          interpolate(start_cumulative_hour, target_cumulative_hour,
                      elapsed, animation_duration_ms)
    /\ cumulative_minute_angle' =
          interpolate(start_cumulative_minute, target_cumulative_minute,
                      elapsed, animation_duration_ms)
    /\ draw_queued' = FALSE
    /\ UNCHANGED << hour_angle, minute_angle,
                    target_cumulative_hour, target_cumulative_minute,
                    last_hour_angle, last_minute_angle,
                    is_active, target_is_active,
                    animation_duration_ms, animation_start_time,
                    start_cumulative_hour, start_cumulative_minute >>

\* update_animation, branch `elapsed < duration`: interpolate both hands
interpolate_step(elapsed) ==
    /\ cumulative_hour_angle' =
          interpolate(start_cumulative_hour, target_cumulative_hour,
                      elapsed, animation_duration_ms)
    /\ cumulative_minute_angle' =
          interpolate(start_cumulative_minute, target_cumulative_minute,
                      elapsed, animation_duration_ms)
    /\ draw_queued' = TRUE
    /\ UNCHANGED << hour_angle, minute_angle,
                    target_cumulative_hour, target_cumulative_minute,
                    last_hour_angle, last_minute_angle,
                    is_active, target_is_active,
                    animation_duration_ms, animation_start_time,
                    start_cumulative_hour, start_cumulative_minute >>

\* variant of the settling branch that does not clear animation_start_time
settle_step_keeps_interval ==
    /\ cumulative_hour_angle' = target_cumulative_hour
    /\ cumulative_minute_angle' = target_cumulative_minute
    /\ is_active' = target_is_active
    /\ draw_queued' = TRUE
    /\ UNCHANGED << hour_angle, minute_angle,
                    target_cumulative_hour, target_cumulative_minute,
                    last_hour_angle, last_minute_angle,
                    target_is_active, animation_duration_ms, animation_start_time,
                    start_cumulative_hour, start_cumulative_minute >>

\* variant of the settling branch that leaves is_active as it was
settle_step_keeps_active ==
    /\ cumulative_hour_angle' = target_cumulative_hour
    /\ cumulative_minute_angle' = target_cumulative_minute
    /\ animation_start_time' = None
    /\ draw_queued' = TRUE
    /\ UNCHANGED << hour_angle, minute_angle,
                    target_cumulative_hour, target_cumulative_minute,
                    last_hour_angle, last_minute_angle,
                    is_active, target_is_active, animation_duration_ms,
                    start_cumulative_hour, start_cumulative_minute >>

\* update_animation, branch `elapsed >= duration`: snap to the targets
settle_step ==
    /\ cumulative_hour_angle' = target_cumulative_hour
    /\ cumulative_minute_angle' = target_cumulative_minute
    /\ is_active' = target_is_active
    /\ animation_start_time' = None
    /\ draw_queued' = TRUE
    /\ UNCHANGED << hour_angle, minute_angle,
                    target_cumulative_hour, target_cumulative_minute,
                    last_hour_angle, last_minute_angle,
                    target_is_active, animation_duration_ms,
                    start_cumulative_hour, start_cumulative_minute >>

\* variant of the idle branch that treats a missing start time as elapsed = 0
idle_step_as_unstarted ==
    IF 0 < animation_duration_ms THEN interpolate_step(0) ELSE settle_step

\* update_animation, no animation in flight: nothing happens
idle_step ==
    /\ draw_queued' = FALSE
    /\ UNCHANGED clock

\* variant of update_animation that settles only once elapsed exceeds the duration
update_animation_settles_late ==
    IF animation_start_time # None
    THEN IF Elapsed < animation_duration_ms
         THEN interpolate_step(Elapsed)
         ELSE IF Elapsed > animation_duration_ms
              THEN settle_step
              ELSE draw_queued' = TRUE /\ UNCHANGED clock
    ELSE idle_step

\* variant of update_animation that keeps the animation running at its end
update_animation_keeps_running ==
    IF animation_start_time # None
    THEN IF Elapsed < animation_duration_ms
         THEN interpolate_step(Elapsed)
         ELSE draw_queued' = TRUE /\ UNCHANGED clock
    ELSE idle_step

update_animation ==
    IF animation_start_time # None
    THEN IF Elapsed < animation_duration_ms
         THEN interpolate_step(Elapsed)
         ELSE settle_step
    ELSE idle_step

\* ---- draw: the colour and centre-dot opacity of one frame ----
\* colour channels are in 1/255 (a hex byte), opacities in 1/100; a rendered
\* value is in 1/Scale of that unit
CENTER_DOT_OPACITY_ACTIVE == 50
CENTER_DOT_OPACITY_INACTIVE == 100

\* ClockColors of the default configuration (#ff6b6b, #ff6b6b26)
DefaultColors ==
    [active_color |-> <<255, 107, 107, 255>>, inactive_color |-> <<255, 107, 107, 38>>]

\* ClockColors of a configuration whose two hand colours differ in every channel
ConfiguredColors ==
    [active_color |-> <<0, 255, 128, 255>>, inactive_color |-> <<255, 0, 64, 38>>]

Palettes == {DefaultColors, ConfiguredColors}

\* ease_in_out((elapsed / duration).min(1.0)) as a numerator over Scale;
\* with duration 0 the quotient is NaN or infinite and min(1.0) yields 1.0
draw_eased_progress ==
    IF animation_duration_ms = 0
    THEN Scale
    ELSE LET clamped == IF Elapsed < animation_duration_ms
                        THEN Elapsed ELSE animation_duration_ms
         IN (ease_in_out(clamped, animation_duration_ms) * Scale)
                \div (animation_duration_ms * animation_duration_ms)

\* from + (to - from) * eased_progress
cross_fade(from, to) == from * Scale + (to - from) * draw_eased_progress

\* variant of hand_color that fades from the target state's colour
hand_color_fades_backwards(colors) ==
    IF animation_start_time # None /\ is_active # target_is_active
    THEN LET from_color == IF target_is_active THEN colors.active_color
                                              ELSE colors.inactive_color
             to_color == IF target_is_active THEN colors.inactive_color
                                            ELSE colors.active_color
         IN [i \in 1..4 |-> cross_fade(from_color[i], to_color[i])]
    ELSE IF is_active THEN [i \in 1..4 |-> colors.active_color[i] * Scale]
                      ELSE [i \in 1..4 |-> colors.inactive_color[i] * Scale]

\* draw: the hand colour (4 channels)
hand_color(colors) ==
    IF animation_start_time # None /\ is_active # target_is_active
    THEN LET from_color == IF target_is_active THEN colors.inactive_color
                                              ELSE colors.active_color
             to_color == IF target_is_active THEN colors.active_color
                                            ELSE colors.inactive_color
         IN [i \in 1..4 |-> cross_fade(from_color[i], to_color[i])]
    ELSE IF is_active THEN [i \in 1..4 |-> colors.active_color[i] * Scale]
                      ELSE [i \in 1..4 |-> colors.inactive_color[i] * Scale]

\* draw: the opacity of the centre dot
center_opacity ==
    IF animation_start_time # None /\ is_active # target_is_active
    THEN IF target_is_active
         THEN cross_fade(CENTER_DOT_OPACITY_INACTIVE, CENTER_DOT_OPACITY_ACTIVE)
         ELSE cross_fade(CENTER_DOT_OPACITY_ACTIVE, CENTER_DOT_OPACITY_INACTIVE)
    ELSE IF is_active THEN CENTER_DOT_OPACITY_ACTIVE * Scale
                      ELSE CENTER_DOT_OPACITY_INACTIVE * Scale

\* ---- digit_patterns.rs: the 6x4 clock patterns of the digits ----
\* ClockPosition::new(hour, minute)
CP(hour, minute) == [hour |-> hour, minute |-> minute]

\* ClockPosition::INACTIVE
INACTIVE == [hour |-> 135, minute |-> 315]

X == INACTIVE

DIGIT_0 ==
    << << CP(90, 180), CP(90, 270), CP(90, 270), CP(180, 270) >>,
       << CP(0, 180), CP(90, 180), CP(180, 270), CP(0, 180) >>,
       << CP(0, 180), CP(0, 180), CP(0, 180), CP(0, 180) >>,
       << CP(0, 180), CP(0, 180), CP(0, 180), CP(0, 180) >>,
       << CP(0, 180), CP(0, 90), CP(0, 270), CP(0, 180) >>,
       << CP(0, 90), CP(90, 270), CP(90, 270), CP(0, 270) >> >>

DIGIT_1 ==
    << << CP(90, 180), CP(90, 270), CP(270, 180), X >>,
       << CP(0, 90), CP(270, 180), CP(0, 180), X >>,
       << X, CP(0, 180), CP(0, 180), X >>,
       << X, CP(0, 180), CP(0, 180), X >>,
       << CP(90, 180), CP(270, 0), CP(0, 90), CP(270, 180) >>,
       << CP(0, 90), CP(90, 270), CP(90, 270), CP(0, 270) >> >>

DIGIT_2 ==
    << << CP(90, 180), CP(90, 270), CP(90, 270), CP(180, 270) >>,
       << CP(0, 90), CP(90, 270), CP(180, 270), CP(0, 180) >>,
       << CP(90, 180), CP(90, 270), CP(0, 270), CP(0, 180) >>,
       << CP(0, 180), CP(90, 180), CP(90, 270), CP(0, 270) >>,
       << CP(0, 180), CP(0, 90), CP(90, 270), CP(180, 270) >>,
       << CP(0, 90), CP(90, 270), CP(90, 270), CP(0, 270) >> >>

DIGIT_3 ==
    << << CP(90, 180), CP(90, 270), CP(90, 270), CP(180, 270) >>,
       << CP(0, 90), CP(90, 270), CP(180, 270), CP(0, 180) >>,
       << X, CP(90, 180), CP(0, 270), CP(0, 180) >>,
       << X, CP(0, 90), CP(180, 270), CP(0, 180) >>,
       << CP(90, 180), CP(90, 270), CP(0, 270), CP(0, 180) >>,
       << CP(0, 90), CP(90, 270), CP(90, 270), CP(0, 270) >> >>

DIGIT_4 ==
    << << CP(90, 180), CP(180, 270), CP(180, 90), CP(180, 270) >>,
       << CP(0, 180), CP(0, 180), CP(0, 180), CP(0, 180) >>,
       << CP(0, 180), CP(0, 90), CP(0, 270), CP(0, 180) >>,
       << CP(0, 90), CP(90, 270), CP(180, 270), CP(0, 180) >>,
       << X, X, CP(0, 180), CP(0, 180) >>,
       << X, X, CP(0, 90), CP(0, 270) >> >>

DIGIT_5 ==
    << << CP(180, 90), CP(270, 90), CP(270, 90), CP(270, 180) >>,
       << CP(0, 180), CP(180, 90), CP(270, 90), CP(0, 270) >>,
       << CP(0, 180), CP(0, 90), CP(270, 90), CP(270, 180) >>,
       << CP(0, 90), CP(270, 90), CP(270, 180), CP(0, 180) >>,
       << CP(180, 90), CP(270, 90), CP(0, 270), CP(0, 180) >>,
       << CP(0, 90), CP(270, 90), CP(270, 90), CP(0, 270) >> >>

DIGIT_6 ==
    << << CP(180, 90), CP(180, 270), X, X >>,
       << CP(180, 0), CP(180, 0), X, X >>,
       << CP(180, 0), CP(0, 90), CP(270, 90), CP(180, 270) >>,
       << CP(180, 0), CP(180, 90), CP(180, 270), CP(180, 0) >>,
       << CP(180, 0), CP(0, 90), CP(270, 0), CP(180, 0) >>,
       << CP(0, 90), CP(270, 90), CP(270, 90), CP(270, 0) >> >>

\* variant of DIGIT_7 with a 12 o'clock hand written as 360 degrees
DIGIT_7_with_360 ==
    << << CP(90, 180), CP(90, 270), CP(90, 270), CP(180, 270) >>,
       << CP(360, 90), CP(90, 270), CP(180, 270), CP(0, 180) >>,
       << X, X, CP(0, 180), CP(0, 180) >>,
       << X, X, CP(0, 180), CP(0, 180) >>,
       << X, X, CP(0, 180), CP(0, 180) >>,
       << X, X, CP(0, 90), CP(0, 270) >> >>

DIGIT_7 ==
    << << CP(90, 180), CP(90, 270), CP(90, 270), CP(180, 270) >>,
       << CP(0, 90), CP(90, 270), CP(180, 270), CP(0, 180) >>,
       << X, X, CP(0, 180), CP(0, 180) >>,
       << X, X, CP(0, 180), CP(0, 180) >>,
       << X, X, CP(0, 180), CP(0, 180) >>,
       << X, X, CP(0, 90), CP(0, 270) >> >>

DIGIT_8 ==
    << << CP(90, 180), CP(90, 270), CP(90, 270), CP(180, 270) >>,
       << CP(0, 180), CP(90, 180), CP(180, 270), CP(0, 180) >>,
       << CP(0, 180), CP(0, 90), CP(0, 270), CP(0, 180) >>,
       << CP(0, 180), CP(90, 180), CP(180, 270), CP(0, 180) >>,
       << CP(0, 180), CP(0, 90), CP(0, 270), CP(0, 180) >>,
       << CP(0, 90), CP(90, 270), CP(90, 270), CP(0, 270) >> >>

DIGIT_9 ==
    << << CP(90, 180), CP(90, 270), CP(90, 270), CP(180, 270) >>,
       << CP(0, 180), CP(90, 180), CP(180, 270), CP(0, 180) >>,
       << CP(0, 180), CP(0, 90), CP(0, 270), CP(0, 180) >>,
       << CP(0, 90), CP(90, 270), CP(180, 270), CP(0, 180) >>,
       << X, X, CP(0, 180), CP(0, 180) >>,
       << X, X, CP(0, 90), CP(0, 270) >> >>

\* variant of get_digit_pattern whose fallback arm is the all-segments digit 8
get_digit_pattern_falls_back_to_8(digit) ==
    CASE digit = 0 -> DIGIT_0
      [] digit = 1 -> DIGIT_1
      [] digit = 2 -> DIGIT_2
      [] digit = 3 -> DIGIT_3
      [] digit = 4 -> DIGIT_4
      [] digit = 5 -> DIGIT_5
      [] digit = 6 -> DIGIT_6
      [] digit = 7 -> DIGIT_7
      [] digit = 8 -> DIGIT_8
      [] digit = 9 -> DIGIT_9
      [] OTHER -> DIGIT_8

get_digit_pattern(digit) ==
    CASE digit = 0 -> DIGIT_0
      [] digit = 1 -> DIGIT_1
      [] digit = 2 -> DIGIT_2
      [] digit = 3 -> DIGIT_3
      [] digit = 4 -> DIGIT_4
      [] digit = 5 -> DIGIT_5
      [] digit = 6 -> DIGIT_6
      [] digit = 7 -> DIGIT_7
      [] digit = 8 -> DIGIT_8
      [] digit = 9 -> DIGIT_9
      [] OTHER -> DIGIT_0

\* the u8 digits handed to set_digit: some digits and some invalid values
DigitInputs == {0, 1, 7, 8, 10, 255}

\* the u8 digits handed to set_digit_immediate
ImmediateDigitInputs == {8, 99}

\* row and column indices of the grid built by DigitDisplay::new
Rows == 0..5
Cols == 0..3
Cells == Rows \X Cols

\* pattern[row_idx][col_idx] of a DigitPattern
PatternAt(pattern, row_idx, col_idx) == pattern[row_idx + 1][col_idx + 1]

\* the fields of an AnalogClock built by AnalogClock::new
NewClock(duration) ==
    [ hour_angle |-> 0, minute_angle |-> 0,
      cumulative_hour_angle |-> 0, cumulative_minute_angle |-> 0,
      target_cumulative_hour |-> 0, target_cumulative_minute |-> 0,
      last_hour_angle |-> None, last_minute_angle |-> None,
      is_active |-> TRUE, target_is_active |-> TRUE,
      animation_duration_ms |-> duration, animation_start_time |-> None,
      start_cumulative_hour |-> 0, start_cumulative_minute |-> 0 ]

\* variant of set_angles on a grid clock that starts no animation for a zero delta
clock_set_angles_skips_zero_delta(c, hour, minute, t) ==
    LET th == calculate_target_cumulative(hour, c.last_hour_angle, c.cumulative_hour_angle)
        tm == calculate_target_cumulative(minute, c.last_minute_angle, c.cumulative_minute_angle)
    IN [c EXCEPT !.last_hour_angle = th.last,
                 !.last_minute_angle = tm.last,
                 !.start_cumulative_hour = c.cumulative_hour_angle,
                 !.start_cumulative_minute = c.cumulative_minute_angle,
                 !.target_cumulative_hour = th.cumulative,
                 !.target_cumulative_minute = tm.cumulative,
                 !.animation_start_time =
                     IF th.cumulative = c.cumulative_hour_angle
                        /\ tm.cumulative = c.cumulative_minute_angle
                     THEN c.animation_start_time ELSE Some(t),
                 !.hour_angle = hour,
                 !.minute_angle = minute,
                 !.target_is_active = target_active(hour, minute)]

\* set_angles on the clock c of a grid, called at instant t
clock_set_angles(c, hour, minute, t) ==
    LET th == calculate_target_cumulative(hour, c.last_hour_angle, c.cumulative_hour_angle)
        tm == calculate_target_cumulative(minute, c.last_minute_angle, c.cumulative_minute_angle)
    IN [c EXCEPT !.last_hour_angle = th.last,
                 !.last_minute_angle = tm.last,
                 !.start_cumulative_hour = c.cumulative_hour_angle,
                 !.start_cumulative_minute = c.cumulative_minute_angle,
                 !.target_cumulative_hour = th.cumulative,
                 !.target_cumulative_minute = tm.cumulative,
                 !.animation_start_time = Some(t),
                 !.hour_angle = hour,
                 !.minute_angle = minute,
                 !.target_is_active = target_active(hour, minute)]

\* set_angles_immediate on the clock c of a grid
clock_set_angles_immediate(c, hour, minute) ==
    [c EXCEPT !.hour_angle = hour,
              !.minute_angle = minute,
              !.cumulative_hour_angle = Deg(hour),
              !.cumulative_minute_angle = Deg(minute),
              !.target_cumulative_hour = Deg(hour),
              !.target_cumulative_minute = Deg(minute),
              !.last_hour_angle = Some(hour),
              !.last_minute_angle = Some(minute),
              !.animation_start_time = None,
              !.is_active = target_active(hour, minute),
              !.target_is_active = target_active(hour, minute)]

\* update_animation on the clock c of a grid, run at instant t
clock_update_animation(c, t) ==
    IF c.animation_start_time # None
    THEN LET elapsed == t - c.animation_start_time[1]
         IN IF elapsed < c.animation_duration_ms
            THEN [c EXCEPT !.cumulative_hour_angle =
                               interpolate(c.start_cumulative_hour, c.target_cumulative_hour,
                                           elapsed, c.animation_duration_ms),
                           !.cumulative_minute_angle =
                               interpolate(c.start_cumulative_minute, c.target_cumulative_minute,
                                           elapsed, c.animation_duration_ms)]
            ELSE [c EXCEPT !.cumulative_hour_angle = c.target_cumulative_hour,
                           !.cumulative_minute_angle = c.target_cumulative_minute,
                           !.is_active = c.target_is_active,
                           !.animation_start_time = None]
    ELSE c

\* variant of set_digit whose column loop stops one short
set_digit_skips_last_column(digit) ==
    LET pattern == get_digit_pattern(digit)
        visited == { cell \in Cells : cell[1] + 1 \in DOMAIN pattern
                                      /\ cell[2] + 1 \in 1..(Len(pattern[cell[1] + 1]) - 1) }
    IN /\ clocks' = [cell \in Cells |->
                        IF cell \in visited
                        THEN clock_set_angles(clocks[cell],
                                              PatternAt(pattern, cell[1], cell[2]).hour,
                                              PatternAt(pattern, cell[1], cell[2]).minute, now)
                        ELSE clocks[cell]]
       /\ calls' = [cell \in Cells |->
                        IF cell \in visited THEN calls[cell] + 1 ELSE calls[cell]]

\* set_digit: every (row_idx, col_idx) of the pattern that has a clock gets
\* set_angles with that pattern entry
set_digit(digit) ==
    LET pattern == get_digit_pattern(digit)
        visited == { cell \in Cells : cell[1] + 1 \in DOMAIN pattern
                                      /\ cell[2] + 1 \in DOMAIN pattern[cell[1] + 1] }
    IN /\ clocks' = [cell \in Cells |->
                        IF cell \in visited
                        THEN clock_set_angles(clocks[cell],
                                              PatternAt(pattern, cell[1], cell[2]).hour,
                                              PatternAt(pattern, cell[1], cell[2]).minute, now)
                        ELSE clocks[cell]]
       /\ calls' = [cell \in Cells |->
                        IF cell \in visited THEN calls[cell] + 1 ELSE calls[cell]]

\* set_digit_immediate: the same through set_angles_immediate
set_digit_immediate(digit) ==
    LET pattern == get_digit_pattern(digit)
        visited == { cell \in Cells : cell[1] + 1 \in DOMAIN pattern
                                      /\ cell[2] + 1 \in DOMAIN pattern[cell[1] + 1] }
    IN /\ clocks' = [cell \in Cells |->
                        IF cell \in visited
                        THEN clock_set_angles_immediate(clocks[cell],
                                              PatternAt(pattern, cell[1], cell[2]).hour,
                                              PatternAt(pattern, cell[1], cell[2]).minute)
                        ELSE clocks[cell]]
       /\ calls' = [cell \in Cells |->
                        IF cell \in visited THEN calls[cell] + 1 ELSE calls[cell]]

\* ---- the state machine ----
\* one AnalogClock after AnalogClock::new
NewClockState ==
    /\ hour_angle = 0
    /\ minute_angle = 0
    /\ cumulative_hour_angle = 0
    /\ cumulative_minute_angle = 0
    /\ target_cumulative_hour = 0
    /\ target_cumulative_minute = 0
    /\ last_hour_angle = None
    /\ last_minute_angle = None
    /\ is_active = TRUE
    /\ target_is_active = TRUE
    /\ animation_duration_ms \in Durations
    /\ animation_start_time = None
    /\ start_cumulative_hour = 0
    /\ start_cumulative_minute = 0
    /\ now = 0
    /\ draw_queued = FALSE
    /\ sets = 0
    /\ last_set = "none"
    /\ last_op = "new"

\* no DigitDisplay built
NoDigitDisplay ==
    /\ clocks = << >>
    /\ calls = << >>
    /\ digit_op = [op |-> "none", digit |-> 0]
    /\ digit_sets = 0

\* no ClockDisplay built
NoPanel ==
    /\ digits = << >>
    /\ time_str = << >>
    /\ update_op = "none"
    /\ updates = 0

\* no timer round under observation
NoSweep ==
    /\ stepped = [op |-> "none", cell |-> << 0, 0 >>]
    /\ group_sets = 0
    /\ ticked = {}
    /\ sweep_start = << >>

\* no merge under observation
NoMerge ==
    /\ merge_base = << >>
    /\ merge_overlay = << >>
    /\ merge_done = FALSE

\* no configuration load under observation
NoLoad ==
    /\ files = << >>
    /\ load_result = None
    /\ config_op = "none"

\* no colour string under observation
NoParse ==
    /\ hex_string = << >>
    /\ hex_color = None

\* no watcher set up
NoReload ==
    /\ instant = 0
    /\ disk_version = 0
    /\ rx = << >>
    /\ watcher_thread = [pc |-> "none"]
    /\ main_loop = "none"
    /\ mutexes = << >>
    /\ reload_state = << >>
    /\ watched_files = {}
    /\ shown_version = 0
    /\ reloads = 0
    /\ written = 0
    /\ cause = << >>

\* no window built
NoWindow ==
    /\ window_child = 0
    /\ clock_display = << >>
    /\ timer_target = None
    /\ window_op = [op |-> "none"]
    /\ window_steps = 0

\* nothing built outside the clocks and the digit displays
NoApp == NoPanel /\ NoSweep /\ NoMerge /\ NoLoad /\ NoParse /\ NoReload /\ NoWindow

\* a single AnalogClock, no DigitDisplay built
Init ==
    /\ NewClockState
    /\ NoDigitDisplay
    /\ NoApp

\* a DigitDisplay after DigitDisplay::new: 6 rows of 4 new clocks
InitDigit ==
    /\ NewClockState
    /\ clocks = [cell \in Cells |-> NewClock(animation_duration_ms)]
    /\ calls = [cell \in Cells |-> 0]
    /\ digit_op = [op |-> "new", digit |-> 0]
    /\ digit_sets = 0
    /\ NoApp

\* DigitDisplay::set_digit -> clock.set_angles(hour, minute)
SetAngles(pairs) ==
    /\ sets < MaxSets
    /\ \E p \in pairs : set_angles(p[1], p[2])
    /\ sets' = sets + 1
    /\ last_set' = "set_angles"
    /\ last_op' = "set_angles"
    /\ UNCHANGED << now, display, app >>

\* DigitDisplay::set_digit_immediate -> clock.set_angles_immediate(hour, minute)
SetAnglesImmediate ==
    /\ sets < MaxSets
    /\ \E p \in ImmediatePairs : set_angles_immediate(p[1], p[2])
    /\ sets' = sets + 1
    /\ last_set' = "set_angles_immediate"
    /\ last_op' = "set_angles_immediate"
    /\ UNCHANGED << now, display, app >>

\* one firing of the timer installed by start_animation_loop
Tick ==
    /\ update_animation
    /\ last_op' = "tick"
    /\ UNCHANGED << now, sets, last_set, display, app >>

\* time passes
Advance ==
    /\ now < MaxTime
    /\ now' = now + 1
    /\ last_op' = "advance"
    /\ UNCHANGED << clock, draw_queued, sets, last_set, display, app >>

SetAnglesAny == SetAngles(RawPairs)
SetAnglesInRange == SetAngles(InRangePairs)

Next == SetAnglesAny \/ SetAnglesImmediate \/ Tick \/ Advance

Spec == Init /\ [][Next]_vars

\* set_angles with arguments in 0..359 and ticks only (no set_angles_immediate)
NextInRange == SetAnglesInRange \/ Tick \/ Advance

SpecInRange == Init /\ [][NextInRange]_vars

\* set_angles_immediate with arguments in 0..359
SetAnglesImmediateInRange ==
    /\ sets < MaxSets
    /\ \E p \in ImmediatePairs \cap ((0..359) \X (0..359)) :
          set_angles_immediate(p[1], p[2])
    /\ sets' = sets + 1
    /\ last_set' = "set_angles_immediate"
    /\ last_op' = "set_angles_immediate"
    /\ UNCHANGED << now, display, app >>

\* both setters with arguments in the documented range 0..359, and ticks
NextDocumented == SetAnglesInRange \/ SetAnglesImmediateInRange \/ Tick \/ Advance

SpecDocumented == Init /\ [][NextDocumented]_vars

\* ---- the animation loop under its scheduling ----
\* (hour, minute) arguments of the calls made while the loop is observed
LivePairs == { << 135, 315 >>, << 10, 20 >>, << 225, 225 >> }

\* a call is observed only if its animation can end before the clock of the
\* model stops at MaxTime
EndsInTime == now + animation_duration_ms <= MaxTime

SetAnglesInTime ==
    /\ EndsInTime
    /\ SetAngles(LivePairs)

SetAnglesImmediateInTime ==
    /\ EndsInTime
    /\ SetAnglesImmediate

NextLive == SetAnglesInTime \/ SetAnglesImmediateInTime \/ Tick \/ Advance

\* start_animation_loop: the glib timeout returns ControlFlow::Continue, so
\* update_animation keeps being called for as long as the clock exists, and
\* Instant::now() keeps growing
SpecLive == Init /\ [][NextLive]_vars /\ WF_vars(Tick) /\ WF_vars(Advance)

\* ---- one DigitDisplay ----
\* ClockDisplay::update_time -> digit_display.set_digit(digit)
SetDigit ==
    /\ digit_sets < MaxDigitSets
    /\ \E digit \in DigitInputs :
          /\ set_digit(digit)
          /\ digit_op' = [op |-> "set_digit", digit |-> digit]
    /\ digit_sets' = digit_sets + 1
    /\ UNCHANGED << clock, now, draw_queued, sets, last_set, last_op, app >>

\* ClockDisplay::update_time_immediate -> digit_display.set_digit_immediate(digit)
SetDigitImmediate ==
    /\ digit_sets < MaxDigitSets
    /\ \E digit \in ImmediateDigitInputs :
          /\ set_digit_immediate(digit)
          /\ digit_op' = [op |-> "set_digit_immediate", digit |-> digit]
    /\ digit_sets' = digit_sets + 1
    /\ UNCHANGED << clock, now, draw_queued, sets, last_set, last_op, app >>

\* the 16 ms timers of the 24 clocks, installed together by DigitDisplay::new,
\* fire in one sweep of the main loop
TickAll ==
    /\ clocks' = [cell \in Cells |-> clock_update_animation(clocks[cell], now)]
    /\ digit_op' = [op |-> "tick", digit |-> digit_op.digit]
    /\ UNCHANGED << clock, now, draw_queued, sets, last_set, last_op, calls, digit_sets, app >>

NextDigit == SetDigit \/ SetDigitImmediate \/ TickAll \/ Advance

SpecDigit == InitDigit /\ [][NextDigit]_vars

\* ---- a group of clocks, each with its own 16 ms timer ----
\* the first NumClocks clocks of the top row of a DigitDisplay
GroupCells == {0} \X (0..(NumClocks - 1))

\* (hour, minute) arguments of set_angles on a clock of the group
GroupPairs == { << 135, 315 >> }

\* (hour, minute) arguments of set_angles_immediate on a clock of the group
GroupImmediatePairs == { << 10, 20 >> }

\* clock.set_angles(hour, minute) on the clock at cell
group_set_angles(cell, hour, minute) ==
    clocks' = [clocks EXCEPT ![cell] = clock_set_angles(@, hour, minute, now)]

\* clock.set_angles_immediate(hour, minute) on the clock at cell
group_set_angles_immediate(cell, hour, minute) ==
    clocks' = [clocks EXCEPT ![cell] = clock_set_angles_immediate(@, hour, minute)]

\* variant of the timer callback in which the start time is one value shared
\* by the clocks: settling one clock ends the animation of all
group_update_animation_shared_start(cell) ==
    LET ticked_clock == clock_update_animation(clocks[cell], now)
    IN clocks' = [other \in DOMAIN clocks |->
                    IF other = cell
                    THEN ticked_clock
                    ELSE IF ticked_clock.animation_start_time = None
                         THEN [clocks[other] EXCEPT !.animation_start_time = None]
                         ELSE clocks[other]]

\* the timer callback of the clock at cell: clock.update_animation()
group_update_animation(cell) ==
    clocks' = [clocks EXCEPT ![cell] = clock_update_animation(@, now)]

\* NumClocks clocks after AnalogClock::new, as DigitDisplay::new builds them
InitGroup ==
    /\ NewClockState
    /\ clocks = [cell \in GroupCells |-> NewClock(animation_duration_ms)]
    /\ calls = [cell \in GroupCells |-> 0]
    /\ digit_op = [op |-> "new", digit |-> 0]
    /\ digit_sets = 0
    /\ NoPanel
    /\ stepped = [op |-> "new", cell |-> << 0, 0 >>]
    /\ group_sets = 0
    /\ ticked = {}
    /\ sweep_start = clocks
    /\ NoMerge
    /\ NoLoad
    /\ NoParse
    /\ NoReload
    /\ NoWindow

\* set_digit reaching one clock: clock.set_angles(hour, minute)
ClockSetAngles ==
    /\ group_sets < MaxGroupSets
    /\ \E cell \in GroupCells : \E p \in GroupPairs :
          /\ group_set_angles(cell, p[1], p[2])
          /\ calls' = [calls EXCEPT ![cell] = @ + 1]
          /\ stepped' = [op |-> "set_angles", cell |-> cell]
    /\ group_sets' = group_sets + 1
    /\ ticked' = {}
    /\ sweep_start' = clocks'
    /\ UNCHANGED << clock, now, draw_queued, sets, last_set, last_op,
                    digit_op, digit_sets, panel, merging, loading, parsing,
                    reloading, windowing >>

\* set_digit_immediate reaching one clock: clock.set_angles_immediate(hour, minute)
ClockSetAnglesImmediate ==
    /\ group_sets < MaxGroupSets
    /\ \E cell \in GroupCells : \E p \in GroupImmediatePairs :
          /\ group_set_angles_immediate(cell, p[1], p[2])
          /\ calls' = [calls EXCEPT ![cell] = @ + 1]
          /\ stepped' = [op |-> "set_angles_immediate", cell |-> cell]
    /\ group_sets' = group_sets + 1
    /\ ticked' = {}
    /\ sweep_start' = clocks'
    /\ UNCHANGED << clock, now, draw_queued, sets, last_set, last_op,
                    digit_op, digit_sets, panel, merging, loading, parsing,
                    reloading, windowing >>

\* the timer of one clock that has not yet fired at this instant fires
ClockTick ==
    /\ \E cell \in GroupCells \ ticked :
          /\ group_update_animation(cell)
          /\ ticked' = ticked \cup {cell}
          /\ stepped' = [op |-> "tick", cell |-> cell]
    /\ UNCHANGED << clock, now, draw_queued, sets, last_set, last_op,
                    calls, digit_op, digit_sets, panel, group_sets, sweep_start,
                    merging, loading, parsing,
                    reloading, windowing >>

\* time passes; every timer may fire again
GroupAdvance ==
    /\ now < MaxTime
    /\ now' = now + 1
    /\ stepped' = [op |-> "advance", cell |-> stepped.cell]
    /\ ticked' = {}
    /\ sweep_start' = clocks
    /\ UNCHANGED << clock, draw_queued, sets, last_set, last_op,
                    display, panel, group_sets, merging, loading, parsing,
                    reloading, windowing >>

NextGroup == ClockSetAngles \/ ClockSetAnglesImmediate \/ ClockTick \/ GroupAdvance

SpecGroup == InitGroup /\ [][NextGroup]_vars

\* ---- config.rs: TOML tables and deep_merge_toml ----
\* a toml::Value that is no table (string, integer, array, ...), and a table
Scalar(v) == [kind |-> "scalar", v |-> v]
Tbl(entries) == [kind |-> "table", entries |-> entries]

\* the tables with keys among `keys` and values among `values`
TablesOver(keys, values) == UNION { [ks -> values] : ks \in SUBSET keys }

Scalars == { Scalar(v) : v \in 1..MaxScalar }

\* tables of nesting depth 1, 2 and 3
LeafTables == TablesOver({"x"}, Scalars)
MidValues == Scalars \cup { Tbl(t) : t \in LeafTables }
MidTables == TablesOver({"p", "q"}, MidValues)
TopValues == Scalars \cup { Tbl(t) : t \in MidTables }
TopTables ==
    { t \in TablesOver({"a", "b"}, TopValues) :
        "b" \in DOMAIN t => t["b"].kind = "scalar" }

RECURSIVE deep_merge_toml(_, _)

\* variant of deep_merge_toml in which the overlay value always replaces
deep_merge_toml_shallow(base, overlay) ==
    [key \in DOMAIN base \cup DOMAIN overlay |->
        IF key \notin DOMAIN overlay THEN base[key] ELSE overlay[key]]

\* deep_merge_toml(base, overlay): the table left in `base`
deep_merge_toml(base, overlay) ==
    [key \in DOMAIN base \cup DOMAIN overlay |->
        IF key \notin DOMAIN overlay
        THEN base[key]
        ELSE IF /\ key \in DOMAIN base
                /\ base[key].kind = "table"
                /\ overlay[key].kind = "table"
             THEN Tbl(deep_merge_toml(base[key].entries, overlay[key].entries))
             ELSE overlay[key]]

\* two tables about to be merged
InitMerge ==
    /\ NewClockState
    /\ NoDigitDisplay
    /\ NoPanel
    /\ NoSweep
    /\ merge_base \in TopTables
    /\ merge_overlay \in TopTables
    /\ merge_done = FALSE
    /\ NoLoad
    /\ NoParse
    /\ NoReload
    /\ NoWindow

\* deep_merge_toml(&mut base, overlay)
DeepMerge ==
    /\ ~merge_done
    /\ merge_base' = deep_merge_toml(merge_base, merge_overlay)
    /\ merge_done' = TRUE
    /\ UNCHANGED << clock, now, draw_queued, sets, last_set, last_op, display,
                    panel, sweep, merge_overlay, loading, parsing,
                    reloading, windowing >>

NextMerge == DeepMerge

SpecMerge == InitMerge /\ [][NextMerge]_vars

\* ---- config.rs: Config::load and Config::load_or_default ----
\* TOML values of the configuration files: strings, integers and arrays
Str(v) == [kind |-> "string", str |-> v]
Int32(v) == [kind |-> "integer", int |-> v]
Arr(items) == [kind |-> "array", items |-> items]

\* Config::default_path() and its parent directory
DefaultPath == "/home/user/.config/chronomatrix/config.toml"
BaseDir == "/home/user/.config/chronomatrix"

\* the include strings of the model: one relative, one absolute
IncludeNames == { "theme.toml", "/etc/chronomatrix/local.toml" }

\* Path::is_absolute
is_absolute(include) == include = "/etc/chronomatrix/local.toml"

\* base_dir.join(path) for the relative include strings
join(base_dir, include) ==
    CASE base_dir = BaseDir /\ include = "theme.toml"
            -> "/home/user/.config/chronomatrix/theme.toml"

\* resolve_include_path(base_dir, include)
resolve_include_path(base_dir, include) ==
    IF is_absolute(include) THEN include ELSE join(base_dir, include)

\* where a path leads once symbolic links are followed: theme.toml in the
\* configuration directory is a link to themes/dark.toml
LinkTarget(path) ==
    IF path = "/home/user/.config/chronomatrix/theme.toml"
    THEN "/home/user/.config/chronomatrix/themes/dark.toml"
    ELSE path

\* the canonical paths at which the model has files
FilePaths ==
    { DefaultPath,
      "/home/user/.config/chronomatrix/themes/dark.toml",
      "/etc/chronomatrix/local.toml" }

\* what is found at a path: nothing, a file that cannot be read, one that is
\* no valid TOML, or one that parses to a table
Missing == [state |-> "missing"]
Unreadable == [state |-> "unreadable"]
Invalid == [state |-> "invalid"]
File(table) == [state |-> "ok", table |-> table]

\* fs::canonicalize(path): fails when nothing is found at the path
canonicalize(path) ==
    IF files[LinkTarget(path)].state = "missing" THEN None ELSE Some(LinkTarget(path))

\* fs::read_to_string(path) followed by toml::from_str: the table, or None
read_table(path) ==
    IF files[path].state = "ok" THEN Some(files[path].table) ELSE None

\* Table::remove(key), for the table that is left
remove(table, key) == [k \in DOMAIN table \ {key} |-> table[k]]

\* the part of Config the model keeps: colors.clock_hand_color and clock.size
DefaultConfig ==
    [colors |-> [clock_hand_color |-> "#ff6b6b"], clock |-> [size |-> 40]]

\* one field of a #[serde(default)] struct inside the #[serde(default)]
\* Config: Some(value), Some(default) when the section or the key is absent,
\* None when the section is no table or the value has the wrong type
field_of(table, section, key, type, default) ==
    IF section \notin DOMAIN table
    THEN Some(default)
    ELSE IF table[section].kind # "table"
         THEN None
         ELSE IF key \notin DOMAIN table[section].entries
              THEN Some(default)
              ELSE IF table[section].entries[key].kind # type
                   THEN None
                   ELSE IF type = "string"
                        THEN Some(table[section].entries[key].str)
                        ELSE Some(table[section].entries[key].int)

\* toml::Value::Table(table).try_into::<Config>(): Some(config) or None
try_into(table) ==
    LET clock_hand_color ==
            field_of(table, "colors", "clock_hand_color", "string",
                     DefaultConfig.colors.clock_hand_color)
        size == field_of(table, "clock", "size", "integer", DefaultConfig.clock.size)
    IN IF clock_hand_color = None \/ size = None
       THEN None
       ELSE Some([colors |-> [clock_hand_color |-> clock_hand_color[1]],
                  clock |-> [size |-> size[1]]])

\* Result<ConfigLoadResult, _>
Err == [ok |-> FALSE]
Ok(config, source_files) == [ok |-> TRUE, config |-> config, source_files |-> source_files]

RECURSIVE merge_includes(_, _, _, _)

\* variant of the include loop that merges the table so far into the include
merge_includes_main_wins(table, source_files, base_dir, includes) ==
    IF includes = << >>
    THEN [table |-> table, source_files |-> source_files]
    ELSE LET item == Head(includes)
             canonical == canonicalize(resolve_include_path(base_dir, item.str))
         IN IF item.kind # "string" \/ canonical = None
            THEN merge_includes(table, source_files, base_dir, Tail(includes))
            ELSE IF read_table(canonical[1]) = None
                 THEN merge_includes(table, source_files, base_dir, Tail(includes))
                 ELSE merge_includes(
                          deep_merge_toml(remove(read_table(canonical[1])[1], "include"),
                                          table),
                          Append(source_files, canonical[1]),
                          base_dir, Tail(includes))

\* the loop of Config::load over the items of the `include` array: the merged
\* table and the source files
merge_includes(table, source_files, base_dir, includes) ==
    IF includes = << >>
    THEN [table |-> table, source_files |-> source_files]
    ELSE LET item == Head(includes)
             canonical == canonicalize(resolve_include_path(base_dir, item.str))
         IN IF item.kind # "string" \/ canonical = None
            THEN merge_includes(table, source_files, base_dir, Tail(includes))
            ELSE IF read_table(canonical[1]) = None
                 THEN merge_includes(table, source_files, base_dir, Tail(includes))
                 ELSE merge_includes(
                          deep_merge_toml(table,
                                          remove(read_table(canonical[1])[1], "include")),
                          Append(source_files, canonical[1]),
                          base_dir, Tail(includes))

\* Config::load(path), for the main file in BaseDir
load(path) ==
    IF read_table(path) = None
    THEN Err
    ELSE LET parsed == read_table(path)[1]
             table == remove(parsed, "include")
             includes == IF "include" \in DOMAIN parsed /\ parsed["include"].kind = "array"
                         THEN parsed["include"].items
                         ELSE << >>
             merged == merge_includes(table, << path >>, BaseDir, includes)
             config == try_into(merged.table)
         IN IF config = None THEN Err ELSE Ok(config[1], merged.source_files)

\* variant of load_or_default whose fallback names no source file
load_or_default_without_source ==
    LET path == DefaultPath
    IN IF load(path).ok THEN load(path) ELSE Ok(DefaultConfig, << >>)

\* Config::load_or_default()
load_or_default ==
    LET path == DefaultPath
    IN IF load(path).ok THEN load(path) ELSE Ok(DefaultConfig, << path >>)

\* the items an `include` array can hold: the include strings and an integer
IncludeItems == { Str(name) : name \in IncludeNames } \cup { Int32(7) }

\* sequences of at most MaxIncludes items
IncludeLists == UNION { [1..n -> IncludeItems] : n \in 0..MaxIncludes }

\* the main file without its `include` key
MainBodies ==
    { << >>,
      [clock |-> Tbl([size |-> Int32(30)])],
      [colors |-> Tbl([clock_hand_color |-> Str("#ff0000")]),
       clock |-> Tbl([size |-> Int32(30)])],
      [clock |-> Tbl([size |-> Str("big")])] }

\* the main file: a body, with no `include` key, an array or a string under it
MainTables ==
    MainBodies
    \cup { body @@ ("include" :> Arr(items)) : body \in MainBodies, items \in IncludeLists }
    \cup { body @@ ("include" :> Str("theme.toml")) : body \in MainBodies }

\* the tables of the included files; one has an `include` key of its own
IncludeTables ==
    { [clock |-> Tbl([size |-> Int32(45)])],
      [clock |-> Tbl([size |-> Int32(50)]),
       colors |-> Tbl([clock_hand_color |-> Str("#abcdef")])],
      [include |-> Arr(<< Str("/etc/chronomatrix/local.toml") >>),
       colors |-> Tbl([clock_hand_color |-> Str("#112233")])],
      [clock |-> Str("big")],
      [clock |-> Tbl([stroke_width |-> Int32(2)])] }

Unusable == { Missing, Unreadable, Invalid }

\* the file systems of the model
FileSystems ==
    { [path \in FilePaths |->
          IF path = DefaultPath THEN main
          ELSE IF path = "/etc/chronomatrix/local.toml" THEN local ELSE dark] :
      main \in Unusable \cup { File(t) : t \in MainTables },
      dark \in Unusable \cup { File(t) : t \in IncludeTables },
      local \in Unusable \cup { File(t) : t \in IncludeTables } }

\* configuration files on disk, nothing loaded yet
InitLoad ==
    /\ NewClockState
    /\ NoDigitDisplay
    /\ NoPanel
    /\ NoSweep
    /\ NoMerge
    /\ files \in FileSystems
    /\ load_result = None
    /\ config_op = "none"
    /\ NoParse
    /\ NoReload
    /\ NoWindow

\* Config::load(&path) on the default path
ConfigLoad ==
    /\ load_result = None
    /\ load_result' = Some(load(DefaultPath))
    /\ config_op' = "load"
    /\ UNCHANGED << clock, now, draw_queued, sets, last_set, last_op, display,
                    panel, sweep, merging, files, parsing, reloading, windowing >>

\* Config::load_or_default(), at start-up and in reload_config
ConfigLoadOrDefault ==
    /\ load_result = None
    /\ load_result' = Some(load_or_default)
    /\ config_op' = "load_or_default"
    /\ UNCHANGED << clock, now, draw_queued, sets, last_set, last_op, display,
                    panel, sweep, merging, files, parsing, reloading, windowing >>

NextLoad == ConfigLoad \/ ConfigLoadOrDefault

SpecLoad == InitLoad /\ [][NextLoad]_vars

\* ---- config.rs: parse_hex_color ----
\* a &str is a sequence of characters; char::len_utf8 gives the bytes of each
\* (the model's one character outside ASCII is e-acute, two bytes)
len_utf8(ch) == IF ch = "e-acute" THEN 2 ELSE 1

\* str::len(): the length in bytes
RECURSIVE byte_len(_)
byte_len(str) == IF str = << >> THEN 0 ELSE len_utf8(Head(str)) + byte_len(Tail(str))

\* str::is_char_boundary(index)
is_char_boundary(str, index) ==
    \E k \in 0..Len(str) : byte_len(SubSeq(str, 1, k)) = index

\* &str[begin..end]: None stands for the panic "byte index is not a char
\* boundary", Some holds the characters of the slice
slice(str, begin, end) ==
    IF is_char_boundary(str, begin) /\ is_char_boundary(str, end)
    THEN LET i == CHOOSE k \in 0..Len(str) : byte_len(SubSeq(str, 1, k)) = begin
             j == CHOOSE k \in 0..Len(str) : byte_len(SubSeq(str, 1, k)) = end
         IN Some(SubSeq(str, i + 1, j))
    ELSE None

\* hex.trim_start_matches('#')
RECURSIVE trim_start_matches(_, _)
trim_start_matches(str, ch) ==
    IF str # << >> /\ Head(str) = ch THEN trim_start_matches(Tail(str), ch) ELSE str

\* char::to_digit(16)
HexDigits ==
    << "0", "1", "2", "3", "4", "5", "6", "7", "8", "9", "a", "b", "c", "d", "e", "f" >>
UpperHexDigits == << "A", "B", "C", "D", "E", "F" >>
to_digit_16(ch) ==
    IF \E v \in 0..15 : HexDigits[v + 1] = ch
    THEN Some(CHOOSE v \in 0..15 : HexDigits[v + 1] = ch)
    ELSE IF \E v \in 10..15 : UpperHexDigits[v - 9] = ch
         THEN Some(CHOOSE v \in 10..15 : UpperHexDigits[v - 9] = ch)
         ELSE None

\* the digits of from_str_radix, most significant first: the value, or None
\* for an invalid digit or a value beyond u8
RECURSIVE radix_value(_, _)
radix_value(src_digits, acc) ==
    IF src_digits = << >>
    THEN Some(acc)
    ELSE IF to_digit_16(Head(src_digits)) = None
         THEN None
         ELSE IF acc * 16 + to_digit_16(Head(src_digits))[1] > 255
              THEN None
              ELSE radix_value(Tail(src_digits), acc * 16 + to_digit_16(Head(src_digits))[1])

\* u8::from_str_radix(src, 16): an optional `+`, then at least one digit
from_str_radix(src) ==
    IF src = << >> \/ src = << "+" >> \/ src = << "-" >>
    THEN None
    ELSE IF Head(src) = "+" THEN radix_value(Tail(src), 0) ELSE radix_value(src, 0)

\* one colour component: the slice parsed, with the fallback of unwrap_or_else
component(str, begin, end, fallback) ==
    IF from_str_radix(slice(str, begin, end)[1]) = None
    THEN fallback
    ELSE from_str_radix(slice(str, begin, end)[1])[1]

\* a returned colour, each channel as the u8 that is divided by 255.0, and
\* the panic of the call
Color(r, g, b, a) == [panic |-> FALSE, rgba |-> << r, g, b, a >>]
Panic == [panic |-> TRUE]

\* parse_hex_color(hex)
parse_hex_color(hex_arg) ==
    LET hex == trim_start_matches(hex_arg, "#")
    IN CASE byte_len(hex) = 6 ->
              IF \E k \in 0..2 : slice(hex, 2 * k, 2 * k + 2) = None
              THEN Panic
              ELSE Color(component(hex, 0, 2, 0), component(hex, 2, 4, 0),
                         component(hex, 4, 6, 0), 255)
         [] byte_len(hex) = 8 ->
              IF \E k \in 0..3 : slice(hex, 2 * k, 2 * k + 2) = None
              THEN Panic
              ELSE Color(component(hex, 0, 2, 0), component(hex, 2, 4, 0),
                         component(hex, 4, 6, 0), component(hex, 6, 8, 255))
         [] OTHER -> Color(0, 0, 0, 255)

\* the pieces the colour strings of the model are built from: hex pairs of
\* the default colours, pairs with a character that is no hex digit, a sign,
\* a two-byte character and a single digit
Pieces ==
    { << "f", "f" >>, << "6", "b" >>, << "2", "6" >>, << "g", "0" >>, << "0", "#" >>,
      << "+", "f" >>, << "e-acute" >>, << "f" >> }

\* concatenations of at most n pieces
RECURSIVE Bodies(_)
Bodies(n) ==
    IF n = 0
    THEN { << >> }
    ELSE Bodies(n - 1) \cup { body \o piece : body \in Bodies(n - 1), piece \in Pieces }

\* the colour strings of a configuration file: any number of '#', then a body
HexInputs ==
    { prefix \o body : prefix \in { << >>, << "#" >>, << "#", "#" >> },
                       body \in Bodies(MaxPieces) }

\* a colour string of the configuration, not yet parsed
InitParse ==
    /\ NewClockState
    /\ NoDigitDisplay
    /\ NoPanel
    /\ NoSweep
    /\ NoMerge
    /\ NoLoad
    /\ hex_string \in HexInputs
    /\ hex_color = None
    /\ NoReload
    /\ NoWindow

\* ClockDisplay::new and load_css: parse_hex_color(&config.colors...)
ParseHexColor ==
    /\ hex_color = None
    /\ hex_color' = Some(parse_hex_color(hex_string))
    /\ UNCHANGED << clock, now, draw_queued, sets, last_set, last_op, display,
                    panel, sweep, merging, loading, hex_string,
                    reloading, windowing >>

NextParse == ParseHexColor

SpecParse == InitParse /\ [][NextParse]_vars

\* ---- one ClockDisplay ----
\* positions of the DigitDisplays built by ClockDisplay::new (`for _ in 0..6`)
Positions == 0..5

\* values of now.format("%H%M%S"), as sequences of characters
FormattedTimes ==
    { << "0", "0", "0", "0", "0", "0" >>,
      << "0", "9", "3", "0", "4", "5" >>,
      << "1", "2", "0", "7", "1", "8" >>,
      << "2", "3", "5", "9", "5", "9" >> }

\* strings that take the loop of update_time through its skipping arms: a
\* character that is no decimal digit, and more characters than displays
IrregularTimes ==
    { << "1", "2", ":", "0", "7", ":", "1", "8" >>,
      << "9", "a" >> }

TimeStrings == FormattedTimes \cup IrregularTimes

\* ch.to_digit(10)
to_digit(ch) ==
    CASE ch = "0" -> Some(0)
      [] ch = "1" -> Some(1)
      [] ch = "2" -> Some(2)
      [] ch = "3" -> Some(3)
      [] ch = "4" -> Some(4)
      [] ch = "5" -> Some(5)
      [] ch = "6" -> Some(6)
      [] ch = "7" -> Some(7)
      [] ch = "8" -> Some(8)
      [] ch = "9" -> Some(9)
      [] OTHER -> None

\* a DigitDisplay that no update has reached
NewDigit == [last |-> None, count |-> 0]

\* the DigitDisplay d after digit.set_digit(digit_val) or
\* digit.set_digit_immediate(digit_val), named by op
digit_receive(d, op, digit_val) ==
    [last |-> Some([op |-> op, digit |-> digit_val]), count |-> d.count + 1]

\* variant of the dispatch loop that sends 0 for a character that is no digit
dispatch_defaults_to_zero(ds, s, op) ==
    [i \in DOMAIN ds |->
        IF i + 1 \in DOMAIN s
        THEN digit_receive(ds[i], op,
                           IF to_digit(s[i + 1]) # None THEN to_digit(s[i + 1])[1] ELSE 0)
        ELSE ds[i]]

\* the loop of update_time and update_time_immediate over the characters of
\* s, on the displays ds: character i goes to self.digits.get(i) when it is
\* a digit and the display exists
dispatch(ds, s, op) ==
    [i \in DOMAIN ds |->
        IF i + 1 \in DOMAIN s /\ to_digit(s[i + 1]) # None
        THEN digit_receive(ds[i], op, to_digit(s[i + 1])[1])
        ELSE ds[i]]

\* update_time on the ClockDisplay in use
update_time(s) == digits' = dispatch(digits, s, "set_digit")

\* the displays of ClockDisplay::new
new_clock_display == [i \in Positions |-> NewDigit]

\* update_time_immediate, which reload_config calls on the ClockDisplay it
\* has just built and then puts in place of the old one
update_time_immediate(s) == digits' = dispatch(new_clock_display, s, "set_digit_immediate")

\* a ClockDisplay after ClockDisplay::new
InitPanel ==
    /\ NewClockState
    /\ NoDigitDisplay
    /\ digits = new_clock_display
    /\ time_str = << >>
    /\ update_op = "new"
    /\ updates = 0
    /\ NoSweep
    /\ NoMerge
    /\ NoLoad
    /\ NoParse
    /\ NoReload
    /\ NoWindow

\* the one-second timer of main.rs (and the call at start-up)
UpdateTime ==
    /\ updates < MaxUpdates
    /\ \E s \in TimeStrings :
          /\ update_time(s)
          /\ time_str' = s
    /\ update_op' = "update_time"
    /\ updates' = updates + 1
    /\ UNCHANGED << clock, now, draw_queued, sets, last_set, last_op, display,
                    sweep, merging, loading, parsing,
                    reloading, windowing >>

\* reload_config: a new ClockDisplay, updated at once, replaces the old one
UpdateTimeImmediate ==
    /\ updates < MaxUpdates
    /\ \E s \in TimeStrings :
          /\ update_time_immediate(s)
          /\ time_str' = s
    /\ update_op' = "update_time_immediate"
    /\ updates' = updates + 1
    /\ UNCHANGED << clock, now, draw_queued, sets, last_set, last_op, display,
                    sweep, merging, loading, parsing,
                    reloading, windowing >>

NextPanel == UpdateTime \/ UpdateTimeImmediate

SpecPanel == InitPanel /\ [][NextPanel]_vars

\* ---- main.rs: the config watcher and the reload poll ----
CONFIG_RELOAD_DEBOUNCE_MS == 300
FILE_WRITE_SETTLE_MS == 100

\* the resolution of the model's clock, in ms: one settle delay
TimeStep == FILE_WRITE_SETTLE_MS

\* the files of the config directory: the watched config and another file
ConfigFile == "config.toml"
DirectoryPaths == { ConfigFile, "notes.txt" }

\* an event of the notify watcher, with the instant the file was written
Event(file, at) == [file |-> file, at |-> at]

\* Mutex::lock: a mutex is taken only when free, otherwise the caller waits
Free(mutex) == mutexes[mutex] = "none"
lock(mutex, thread) == [mutexes EXCEPT ![mutex] = thread]
unlock(mutex) == [mutexes EXCEPT ![mutex] = "none"]

\* the steps that change nothing outside the watcher and the poll
OnlyReloading ==
    UNCHANGED << clock, now, draw_queued, sets, last_set, last_op, display,
                 panel, sweep, merging, loading, parsing, windowing >>

\* setup_config_watcher has run: the thread waits on rx, the poll is installed
InitReload ==
    /\ NewClockState
    /\ NoDigitDisplay
    /\ NoPanel
    /\ NoSweep
    /\ NoMerge
    /\ NoLoad
    /\ NoParse
    /\ NoWindow
    /\ instant = 0
    /\ disk_version = 0
    /\ rx = << >>
    /\ watcher_thread = [pc |-> "recv"]
    /\ main_loop = "idle"
    /\ mutexes = [reload_state |-> "none", watched_files |-> "none"]
    /\ reload_state = [should_reload |-> FALSE, last_reload |-> 0]
    /\ watched_files = { ConfigFile }
    /\ shown_version = 0
    /\ reloads = 0
    /\ written = 0
    /\ cause = [request |-> None, reload |-> None]

\* the events the thread has not decided on yet
Backlog == Len(rx) + (IF watcher_thread.pc = "recv" THEN 0 ELSE 1)

\* a file of the watched directory is written: notify sends one event; a
\* write is observed only if the thread can still decide on it, after the
\* events before it, before the clock of the model stops
FileWrite ==
    /\ written < MaxEvents
    /\ instant * TimeStep + (Backlog + 1) * FILE_WRITE_SETTLE_MS <= MaxInstant * TimeStep
    /\ \E file \in DirectoryPaths :
          /\ rx' = Append(rx, Event(file, instant))
          /\ disk_version' = IF file = ConfigFile THEN disk_version + 1 ELSE disk_version
    /\ written' = written + 1
    /\ UNCHANGED << instant, watcher_thread, main_loop, mutexes, reload_state,
                    watched_files, shown_version, reloads, cause >>
    /\ OnlyReloading

\* the thread: rx.recv() returns Ok(Ok(event))
WatcherRecv ==
    /\ watcher_thread.pc = "recv"
    /\ rx # << >>
    /\ watcher_thread' = [pc |-> "filter", event |-> Head(rx)]
    /\ rx' = Tail(rx)
    /\ UNCHANGED << instant, disk_version, main_loop, mutexes, reload_state,
                    watched_files, shown_version, reloads, written, cause >>
    /\ OnlyReloading

\* the thread: is_watched_file_event takes the mutex of watched_files
WatcherFilterLock ==
    /\ watcher_thread.pc = "filter"
    /\ Free("watched_files")
    /\ mutexes' = lock("watched_files", "watcher")
    /\ watcher_thread' = [watcher_thread EXCEPT !.pc = "filtering"]
    /\ UNCHANGED << instant, disk_version, rx, main_loop, reload_state,
                    watched_files, shown_version, reloads, written, cause >>
    /\ OnlyReloading

\* variant of the filter that returns with the mutex of watched_files held
WatcherFilterKeepsLock ==
    /\ watcher_thread.pc = "filtering"
    /\ watcher_thread' =
          IF watcher_thread.event.file \in watched_files
          THEN [pc |-> "sleep", event |-> watcher_thread.event,
                wake |-> instant * TimeStep + FILE_WRITE_SETTLE_MS]
          ELSE [pc |-> "recv"]
    /\ UNCHANGED << instant, disk_version, rx, main_loop, mutexes, reload_state,
                    watched_files, shown_version, reloads, written, cause >>
    /\ OnlyReloading

\* the thread: is_watched_file_event matches the event's path against the
\* set and returns, which releases the mutex; a match starts
\* thread::sleep(FILE_WRITE_SETTLE_MS)
WatcherFilter ==
    /\ watcher_thread.pc = "filtering"
    /\ mutexes' = unlock("watched_files")
    /\ watcher_thread' =
          IF watcher_thread.event.file \in watched_files
          THEN [pc |-> "sleep", event |-> watcher_thread.event,
                wake |-> instant * TimeStep + FILE_WRITE_SETTLE_MS]
          ELSE [pc |-> "recv"]
    /\ UNCHANGED << instant, disk_version, rx, main_loop, reload_state,
                    watched_files, shown_version, reloads, written, cause >>
    /\ OnlyReloading

\* the thread: the sleep is over and reload_state_clone.lock() succeeds
WatcherLock ==
    /\ watcher_thread.pc = "sleep"
    /\ instant * TimeStep >= watcher_thread.wake
    /\ Free("reload_state")
    /\ mutexes' = lock("reload_state", "watcher")
    /\ watcher_thread' = [pc |-> "decide", event |-> watcher_thread.event]
    /\ UNCHANGED << instant, disk_version, rx, main_loop, reload_state,
                    watched_files, shown_version, reloads, written, cause >>
    /\ OnlyReloading

\* variant of the debounce test that accepts every event
WatcherDecideAlways ==
    /\ watcher_thread.pc = "decide"
    /\ reload_state' = [should_reload |-> TRUE, last_reload |-> instant]
    /\ cause' = [cause EXCEPT !.request = Some(watcher_thread.event.at)]
    /\ mutexes' = unlock("reload_state")
    /\ watcher_thread' = [pc |-> "recv"]
    /\ UNCHANGED << instant, disk_version, rx, main_loop, watched_files,
                    shown_version, reloads, written >>
    /\ OnlyReloading

\* the thread, holding reload_state: the debounce test, then the guard is
\* dropped and the loop returns to rx.recv()
WatcherDecide ==
    /\ watcher_thread.pc = "decide"
    /\ IF (instant - reload_state.last_reload) * TimeStep > CONFIG_RELOAD_DEBOUNCE_MS
       THEN /\ reload_state' = [should_reload |-> TRUE, last_reload |-> instant]
            /\ cause' = [cause EXCEPT !.request = Some(watcher_thread.event.at)]
       ELSE UNCHANGED << reload_state, cause >>
    /\ mutexes' = unlock("reload_state")
    /\ watcher_thread' = [pc |-> "recv"]
    /\ UNCHANGED << instant, disk_version, rx, main_loop, watched_files,
                    shown_version, reloads, written >>
    /\ OnlyReloading

\* the poll callback fires and reload_state.lock() succeeds
PollLock ==
    /\ main_loop = "idle"
    /\ Free("reload_state")
    /\ mutexes' = lock("reload_state", "main")
    /\ main_loop' = "locked"
    /\ UNCHANGED << instant, disk_version, rx, watcher_thread, reload_state,
                    watched_files, shown_version, reloads, written, cause >>
    /\ OnlyReloading

\* variant of the poll that calls reload_config whatever the flag says
PollCheckIgnoresFlag ==
    /\ main_loop = "locked"
    /\ reload_state' = [reload_state EXCEPT !.should_reload = FALSE]
    /\ main_loop' = "reload"
    /\ UNCHANGED mutexes
    /\ UNCHANGED << instant, disk_version, rx, watcher_thread, watched_files,
                    shown_version, reloads, written, cause >>
    /\ OnlyReloading

\* the poll, holding reload_state: `&& state.should_reload`; the flag is
\* reset and reload_config entered, or the guard is dropped
PollCheck ==
    /\ main_loop = "locked"
    /\ IF reload_state.should_reload
       THEN /\ reload_state' = [reload_state EXCEPT !.should_reload = FALSE]
            /\ main_loop' = "reload"
            /\ UNCHANGED mutexes
       ELSE /\ mutexes' = unlock("reload_state")
            /\ main_loop' = "idle"
            /\ UNCHANGED reload_state
    /\ UNCHANGED << instant, disk_version, rx, watcher_thread, watched_files,
                    shown_version, reloads, written, cause >>
    /\ OnlyReloading

\* reload_config up to the watched directories: Config::load_or_default reads
\* the files as they are now, the display is rebuilt from the result
ReloadConfigLoad ==
    /\ main_loop = "reload"
    /\ shown_version' = disk_version
    /\ reloads' = reloads + 1
    /\ cause' = [request |-> None, reload |-> cause.request]
    /\ main_loop' = "files"
    /\ UNCHANGED << instant, disk_version, rx, watcher_thread, mutexes, reload_state,
                    watched_files, written >>
    /\ OnlyReloading

\* reload_config: watched_files.lock(), the set is replaced by the resolved
\* source files; the callback returns and both guards are dropped
ReloadConfigFiles ==
    /\ main_loop = "files"
    /\ Free("watched_files")
    /\ watched_files' = { ConfigFile }
    /\ mutexes' = unlock("reload_state")
    /\ main_loop' = "idle"
    /\ UNCHANGED << instant, disk_version, rx, watcher_thread, reload_state,
                    shown_version, reloads, written, cause >>
    /\ OnlyReloading

\* the thread has nothing to do before time passes: it waits on an empty
\* channel or sleeps
WatcherWaits ==
    \/ watcher_thread.pc = "recv" /\ rx = << >>
    \/ watcher_thread.pc = "sleep" /\ instant * TimeStep < watcher_thread.wake

\* time passes while the poll callback is not running and the thread waits
ReloadAdvance ==
    /\ instant < MaxInstant
    /\ main_loop = "idle"
    /\ WatcherWaits
    /\ instant' = instant + 1
    /\ UNCHANGED << disk_version, rx, watcher_thread, main_loop, mutexes, reload_state,
                    watched_files, shown_version, reloads, written, cause >>
    /\ OnlyReloading

WatcherNext ==
    WatcherRecv \/ WatcherFilterLock \/ WatcherFilter \/ WatcherLock \/ WatcherDecide

PollNext == PollLock \/ PollCheck \/ ReloadConfigLoad \/ ReloadConfigFiles

NextReload == FileWrite \/ WatcherNext \/ PollNext \/ ReloadAdvance

SpecReload == InitReload /\ [][NextReload]_vars

\* the thread runs whenever it can, and its lock() succeeds in the end,
\* because the poll callback holds reload_state only while it runs, once in
\* CONFIG_POLL_INTERVAL_MS; for the same reason time passes between two
\* runs of the callback; glib keeps firing the callback (ControlFlow::Continue)
SpecReloadFair ==
    /\ SpecReload
    /\ SF_vars(WatcherNext)
    /\ WF_vars(PollNext)
    /\ SF_vars(ReloadAdvance)

\* ---- main.rs: the window, the shared ClockDisplay and the one-second timer ----
\* DigitDisplay::new: 6 rows of 4 new clocks
new_digit_display(duration) == [cell \in Cells |-> NewClock(duration)]

\* set_digit (immediate = FALSE) or set_digit_immediate on the clocks of one
\* DigitDisplay, at instant t
digit_display_set(grid, digit, immediate, t) ==
    LET pattern == get_digit_pattern(digit)
        at(cell) == PatternAt(pattern, cell[1], cell[2])
    IN [cell \in Cells |->
           IF cell[1] + 1 \in DOMAIN pattern /\ cell[2] + 1 \in DOMAIN pattern[cell[1] + 1]
           THEN IF immediate
                THEN clock_set_angles_immediate(grid[cell], at(cell).hour, at(cell).minute)
                ELSE clock_set_angles(grid[cell], at(cell).hour, at(cell).minute, t)
           ELSE grid[cell]]

\* ClockDisplay::new(&config): the display with identity id
new_display(id, duration) ==
    [id |-> id, digits |-> [i \in Positions |-> new_digit_display(duration)]]

\* update_time (immediate = FALSE) or update_time_immediate on the display
\* d, for the formatted time s, at instant t
display_update(d, s, immediate, t) ==
    [d EXCEPT !.digits =
        [i \in Positions |->
            IF i + 1 \in DOMAIN s /\ to_digit(s[i + 1]) # None
            THEN digit_display_set(d.digits[i], to_digit(s[i + 1])[1], immediate, t)
            ELSE d.digits[i]]]

\* the formatted times of the window's behaviours
WindowTimes == { << "0", "9", "3", "0", "4", "5" >>, << "2", "3", "5", "9", "5", "9" >> }

\* build_ui: the first display, updated once, is the window's child
InitWindow ==
    /\ NewClockState
    /\ NoDigitDisplay
    /\ NoPanel
    /\ NoSweep
    /\ NoMerge
    /\ NoLoad
    /\ NoParse
    /\ NoReload
    /\ \E s \in WindowTimes :
          /\ clock_display = display_update(new_display(0, animation_duration_ms), s, FALSE, 0)
          /\ window_op = [op |-> "build_ui", time |-> s]
    /\ window_child = 0
    /\ timer_target = None
    /\ window_steps = 0

\* the steps that change nothing outside the window
OnlyWindowing ==
    UNCHANGED << clock, draw_queued, sets, last_set, last_op, display,
                 panel, sweep, merging, loading, parsing, reloading >>

\* variant of the timer callback that keeps updating the display of build_ui
TimerTickOnFirstDisplay ==
    /\ window_steps < MaxWindowSteps
    /\ \E s \in WindowTimes :
          window_op' = [op |-> "update_time", time |-> s]
    /\ timer_target' = Some(0)
    /\ window_steps' = window_steps + 1
    /\ UNCHANGED << now, window_child, clock_display >>
    /\ OnlyWindowing

\* the one-second timer: clock_display_clone.borrow().update_time()
TimerTick ==
    /\ window_steps < MaxWindowSteps
    /\ \E s \in WindowTimes :
          /\ clock_display' = display_update(clock_display, s, FALSE, now)
          /\ window_op' = [op |-> "update_time", time |-> s]
    /\ timer_target' = Some(clock_display.id)
    /\ window_steps' = window_steps + 1
    /\ UNCHANGED << now, window_child >>
    /\ OnlyWindowing

\* variant of reload_config that updates the new display through update_time
ReloadConfigAnimated ==
    /\ window_steps < MaxWindowSteps
    /\ \E s \in WindowTimes, duration \in Durations :
          LET rebuilt ==
                  display_update(new_display(clock_display.id + 1, duration), s, FALSE, now)
          IN /\ window_child' = rebuilt.id
             /\ clock_display' = rebuilt
             /\ window_op' = [op |-> "reload_config", time |-> s]
    /\ window_steps' = window_steps + 1
    /\ UNCHANGED << now, timer_target >>
    /\ OnlyWindowing

\* reload_config: a display built for the new config and updated at once
\* becomes the window's child and the content of the shared cell
ReloadConfig ==
    /\ window_steps < MaxWindowSteps
    /\ \E s \in WindowTimes, duration \in Durations :
          LET rebuilt ==
                  display_update(new_display(clock_display.id + 1, duration), s, TRUE, now)
          IN /\ window_child' = rebuilt.id
             /\ clock_display' = rebuilt
             /\ window_op' = [op |-> "reload_config", time |-> s]
    /\ window_steps' = window_steps + 1
    /\ UNCHANGED << now, timer_target >>
    /\ OnlyWindowing

\* time passes, and with it the 16 ms timers of the clocks of the display in
\* the cell fire
WindowAdvance ==
    /\ now < MaxTime
    /\ now' = now + 1
    /\ clock_display' =
          [clock_display EXCEPT !.digits =
              [i \in Positions |->
                  [cell \in Cells |->
                      clock_update_animation(clock_display.digits[i][cell], now + 1)]]]
    /\ window_op' = [window_op EXCEPT !.op = "tick"]
    /\ UNCHANGED << window_child, timer_target, window_steps >>
    /\ OnlyWindowing

NextWindow == TimerTick \/ ReloadConfig \/ WindowAdvance

SpecWindow == InitWindow /\ [][NextWindow]_vars

TypeOK ==
    /\ now \in 0..MaxTime
    /\ sets \in 0..MaxSets
    /\ is_active \in BOOLEAN
    /\ target_is_active \in BOOLEAN
    /\ animation_duration_ms \in Durations
    /\ animation_start_time \in {None} \cup {Some(t) : t \in 0..MaxTime}

\* ---- helpers of the properties ----
Settled == animation_start_time = None
Animating == animation_start_time # None
InRange(a) == a \in 0..359
\* forward (clockwise) delta in [0,360) from raw angle a to raw angle b
ForwardDelta(a, b) == (b - a) % 360
\* x and y (in 1/Scale degrees) are the same angle modulo 360 degrees
Congruent(x, y) == (x - y) % Deg(360) = 0

\* C1: under set_angles calls with raw angles in [0,360) and ticks with
\* non-decreasing time (no set_angles_immediate), neither hand's current
\* cumulative angle ever decreases from one state to the next.
C1_CumulativeNeverDecreases ==
    [][ /\ cumulative_hour_angle' >= cumulative_hour_angle
        /\ cumulative_minute_angle' >= cumulative_minute_angle ]_vars

\* a tick has moved a retargeted hand strictly between its start and target
C1_Witness ==
    /\ last_op = "tick"
    /\ sets >= 2
    /\ 0 < start_cumulative_hour
    /\ start_cumulative_hour < cumulative_hour_angle
    /\ cumulative_hour_angle < target_cumulative_hour

\* C2: for arbitrary integer raw angles, the cumulative target computed by a
\* set_angles call is >= the hand's cumulative angle at the time of the call
\* and exceeds it by less than 360 degrees.  (set_angles leaves the current
\* cumulative angle alone, so the state right after the call shows both.)
C2_TargetStepInRange ==
    last_op = "set_angles" =>
        /\ target_cumulative_hour >= cumulative_hour_angle
        /\ target_cumulative_hour - cumulative_hour_angle < Deg(360)
        /\ target_cumulative_minute >= cumulative_minute_angle
        /\ target_cumulative_minute - cumulative_minute_angle < Deg(360)

\* C3: a set_angles call issued while the animation of the previous
\* set_angles is still in flight yields, for each hand, the previous
\* cumulative target plus the forward delta between the two raw angles
\* (fresh clock, (350,10) then (10,20): hour target 370).
C3_RetargetAddsToPreviousTarget ==
    [][ ( /\ Animating
          /\ last_set = "set_angles"
          /\ last_op' = "set_angles" )
        => /\ target_cumulative_hour' =
                target_cumulative_hour + Deg(ForwardDelta(hour_angle, hour_angle'))
           /\ target_cumulative_minute' =
                target_cumulative_minute + Deg(ForwardDelta(minute_angle, minute_angle')) ]_vars

\* C4: once the clock has settled after set_angles(h, m) with h, m in
\* [0,360), each hand's cumulative angle is congruent to its raw angle
\* modulo 360, whatever happened before.
C4_SettledCongruentToRaw ==
    ( /\ Settled
      /\ last_set = "set_angles"
      /\ InRange(hour_angle)
      /\ InRange(minute_angle) )
    => /\ Congruent(cumulative_hour_angle, Deg(hour_angle))
       /\ Congruent(cumulative_minute_angle, Deg(minute_angle))

\* C5: after set_angles_immediate(h, m), from any prior state and until the
\* next setter, the clock is Settled, current and target cumulative angles
\* are exactly h and m, and is_active equals target_is_active; ticks and
\* the passing of time keep it so.
C5_ImmediateIsExactAndSettled ==
    last_set = "set_angles_immediate" =>
        /\ Settled
        /\ cumulative_hour_angle = Deg(hour_angle)
        /\ cumulative_minute_angle = Deg(minute_angle)
        /\ target_cumulative_hour = Deg(hour_angle)
        /\ target_cumulative_minute = Deg(minute_angle)
        /\ is_active = target_is_active

\* set_angles_immediate came after a set_angles whose animation had moved the
\* hand, and a tick has run at a later instant since
C5_Witness ==
    /\ last_set = "set_angles_immediate"
    /\ last_op = "tick"
    /\ sets >= 2
    /\ now > 0
    /\ start_cumulative_hour # cumulative_hour_angle
    /\ cumulative_hour_angle # 0

\* C6: a tick on a Settled clock leaves every field of the clock as it was
\* (settling is idempotent, no drift).
C6_SettledTickChangesNothing ==
    [][ (Settled /\ last_op' = "tick") => UNCHANGED clock ]_vars

\* a tick has run on a clock that an earlier tick had settled away from its
\* animation start
C6_Witness ==
    /\ last_op = "tick"
    /\ ~draw_queued
    /\ Settled
    /\ last_set = "set_angles"
    /\ cumulative_hour_angle # start_cumulative_hour

\* C7: every set_angles call leaves the clock Animating, also when the new
\* raw angles equal the previous ones.
C7_SetAnglesAlwaysAnimates ==
    last_op = "set_angles" => Animating

\* a repeated set_angles with the same non-zero raw angles: zero delta
C7_Witness ==
    /\ last_op = "set_angles"
    /\ sets >= 2
    /\ hour_angle # 0
    /\ target_cumulative_hour = cumulative_hour_angle
    /\ target_cumulative_minute = cumulative_minute_angle
    /\ Animating

\* C8: a tick on an Animating clock with elapsed >= duration snaps both
\* hands to their targets, sets is_active to target_is_active and clears the
\* animation interval; with elapsed < duration it leaves the clock Animating.
C8_TickSettlesExactlyWhenElapsed ==
    [][ (Animating /\ last_op' = "tick")
        => IF now - animation_start_time[1] >= animation_duration_ms
           THEN /\ cumulative_hour_angle' = target_cumulative_hour
                /\ cumulative_minute_angle' = target_cumulative_minute
                /\ is_active' = target_is_active
                /\ animation_start_time' = None
           ELSE animation_start_time' = animation_start_time ]_vars

\* a tick has just settled an animation that moved the hand and cross-faded
C8_Witness ==
    /\ last_op = "tick"
    /\ draw_queued
    /\ Settled
    /\ last_set = "set_angles"
    /\ cumulative_hour_angle # start_cumulative_hour
    /\ ~is_active

\* C9: is_active changes only in a settling tick or in set_angles_immediate.
C9_ActiveChangesOnlyOnSettleOrImmediate ==
    [][ is_active' # is_active
        => \/ last_op' = "set_angles_immediate"
           \/ /\ last_op' = "tick"
              /\ Animating
              /\ now - animation_start_time[1] >= animation_duration_ms ]_vars

\* an in-flight tick has run while the cross-fade is pending
C9_Witness ==
    /\ last_op = "tick"
    /\ Animating
    /\ is_active # target_is_active

\* C10: after set_angles(h, m), target_is_active is false exactly for the
\* raw pairs (135, 315) and (225, 225); after set_angles_immediate(h, m) the
\* same holds of both is_active and target_is_active.
C10_ActiveIffNotRestPair ==
    LET rest == <<hour_angle, minute_angle>> \in { <<135, 315>>, <<225, 225>> }
    IN /\ last_op = "set_angles" => (target_is_active <=> ~rest)
       /\ last_op = "set_angles_immediate" =>
            /\ target_is_active <=> ~rest
            /\ is_active <=> ~rest

\* set_angles was called with the alternate rest pair
C10_Witness ==
    /\ last_op = "set_angles"
    /\ hour_angle = 225
    /\ minute_angle = 225
    /\ ~target_is_active
    /\ is_active

\* C11: with an animation duration of 0, a tick never leaves the clock
\* Animating: the first tick after any set_angles takes the settling branch
\* (cumulative = target, is_active = target_is_active, interval cleared), so
\* the interpolation branch and its division by the duration never run.
C11_ZeroDurationSettlesOnFirstTick ==
    (animation_duration_ms = 0 /\ last_op = "tick") =>
        /\ Settled
        /\ cumulative_hour_angle = target_cumulative_hour
        /\ cumulative_minute_angle = target_cumulative_minute
        /\ is_active = target_is_active

\* a zero-duration clock was ticked right after a set_angles that moved the
\* hand and changed the active state
C11_Witness ==
    /\ animation_duration_ms = 0
    /\ last_op = "tick"
    /\ draw_queued
    /\ last_set = "set_angles"
    /\ now = 0
    /\ cumulative_hour_angle # start_cumulative_hour
    /\ ~is_active

\* C12: a set_angles call issued while an animation is in flight leaves the
\* current cumulative angles as they are and records exactly them as the new
\* interpolation start.
C12_RetargetStartsAtCurrent ==
    [][ (Animating /\ last_op' = "set_angles")
        => /\ cumulative_hour_angle' = cumulative_hour_angle
           /\ cumulative_minute_angle' = cumulative_minute_angle
           /\ start_cumulative_hour' = cumulative_hour_angle
           /\ start_cumulative_minute' = cumulative_minute_angle ]_vars

\* set_angles has just restarted from a partially animated hour angle (a
\* fraction of a degree, so neither a raw angle nor an old target)
C12_Witness ==
    /\ last_op = "set_angles"
    /\ sets >= 2
    /\ start_cumulative_hour = cumulative_hour_angle
    /\ start_cumulative_hour % Scale # 0

C15_LastAngleInRange ==
    /\ last_hour_angle # None => InRange(last_hour_angle[1])
    /\ last_minute_angle # None => InRange(last_minute_angle[1])

\* a lies between b and c (inclusive), whichever of the two is larger
Between(a, b, c) == (b <= a /\ a <= c) \/ (c <= a /\ a <= b)

\* C16: while an animation is in flight and is_active # target_is_active,
\* every channel of the rendered hand colour and the centre-dot opacity
\* equal those of the current state at progress 0, those of the target state
\* at progress 1 (elapsed >= duration, progress clamped), and lie between
\* the two for every progress.
C16_CrossFadeBounds ==
    (Animating /\ is_active # target_is_active) =>
        LET at_start == animation_duration_ms > 0 /\ now - animation_start_time[1] = 0
            at_end == now - animation_start_time[1] >= animation_duration_ms
            cur_opacity == (IF is_active THEN 50 ELSE 100) * Scale
            tgt_opacity == (IF target_is_active THEN 50 ELSE 100) * Scale
        IN /\ \A colors \in Palettes : \A i \in 1..4 :
                LET cur == (IF is_active THEN colors.active_color[i]
                                         ELSE colors.inactive_color[i]) * Scale
                    tgt == (IF target_is_active THEN colors.active_color[i]
                                                ELSE colors.inactive_color[i]) * Scale
                IN /\ at_start => hand_color(colors)[i] = cur
                   /\ at_end => hand_color(colors)[i] = tgt
                   /\ Between(hand_color(colors)[i], cur, tgt)
           /\ at_start => center_opacity = cur_opacity
           /\ at_end => center_opacity = tgt_opacity
           /\ Between(center_opacity, cur_opacity, tgt_opacity)

\* a frame in the middle of a cross-fade towards the inactive colour: the
\* alpha channel and the centre opacity are strictly between their endpoints
C16_Witness ==
    /\ Animating
    /\ is_active /\ ~target_is_active
    /\ animation_duration_ms > 0
    /\ now - animation_start_time[1] > 0
    /\ now - animation_start_time[1] < animation_duration_ms
    /\ hand_color(DefaultColors)[4] < 255 * Scale
    /\ hand_color(DefaultColors)[4] > 38 * Scale
    /\ center_opacity > 50 * Scale
    /\ center_opacity < 100 * Scale

\* the durations (in time units, and the default in ms) the easing is tabulated for
EaseDurations == {AnimDuration, DEFAULT_ANIMATION_DURATION_MS}

\* ease_in_out maps 0 to 0, 1 to 1, 1/2 to 1/2 and is non-decreasing on [0,1]
\* (progress e/d, value as a numerator over d*d)
EasingShape ==
    \A d \in EaseDurations :
        /\ ease_in_out(0, d) = 0
        /\ ease_in_out(d, d) = d * d
        /\ d % 2 = 0 => 2 * ease_in_out(d \div 2, d) = d * d
        /\ \A e \in 0..(d - 1) : ease_in_out(e, d) <= ease_in_out(e + 1, d)

\* C17: the easing maps 0 to 0, 1 to 1, 1/2 to exactly 1/2 and is
\* non-decreasing on [0,1] (in particular 150 ms of 300 ms gives 1/2); hence
\* a tick at half the duration places each hand exactly midway between its
\* start and target cumulative angles.
C17_EasingMidpoint ==
    /\ EasingShape
    /\ 2 * ease_in_out(150, 300) = 300 * 300
    /\ ( /\ last_op = "tick"
         /\ Animating
         /\ 2 * (now - animation_start_time[1]) = animation_duration_ms )
       => /\ 2 * cumulative_hour_angle = start_cumulative_hour + target_cumulative_hour
          /\ 2 * cumulative_minute_angle = start_cumulative_minute + target_cumulative_minute

\* a tick at half the duration of an animation that moves the hour hand
C17_Witness ==
    /\ last_op = "tick"
    /\ Animating
    /\ 2 * (now - animation_start_time[1]) = animation_duration_ms
    /\ start_cumulative_hour < cumulative_hour_angle
    /\ cumulative_hour_angle < target_cumulative_hour

\* every digit 0..9 has a pattern of 6 rows of 4 cells with angles in [0,360)
PatternsWellFormed ==
    \A d \in 0..9 :
        LET pattern == get_digit_pattern(d)
        IN /\ Len(pattern) = 6
           /\ \A r \in 1..Len(pattern) :
                /\ Len(pattern[r]) = 4
                /\ \A k \in 1..Len(pattern[r]) :
                     /\ pattern[r][k].hour \in 0..359
                     /\ pattern[r][k].minute \in 0..359

\* C18: for every digit 0..9 get_digit_pattern returns a grid of exactly 6
\* rows by 4 columns whose hour and minute angles all lie in [0,360); so the
\* raw angles a digit display hands to its 24 clocks are all in [0,360).
C18_PatternsAre6x4InRange ==
    /\ PatternsWellFormed
    /\ digit_sets > 0 =>
         \A cell \in Cells :
            /\ clocks[cell].hour_angle \in 0..359
            /\ clocks[cell].minute_angle \in 0..359

\* the display shows digit 7: its last cell holds the pair (0, 270) and its
\* first column rests
C18_Witness ==
    /\ digit_op = [op |-> "set_digit", digit |-> 7]
    /\ clocks[<<5, 3>>].hour_angle = 0
    /\ clocks[<<5, 3>>].minute_angle = 270
    /\ clocks[<<3, 0>>].hour_angle = 135

\* every u8 outside 0..9 gets the pattern of digit 0
InvalidDigitsGetPattern0 ==
    \A d \in 10..255 : get_digit_pattern(d) = get_digit_pattern(0)

\* C19: for every digit value in 10..255 get_digit_pattern returns the
\* pattern of digit 0, and set_digit / set_digit_immediate with such a value
\* change the 24 clocks exactly as they would for digit 0.
C19_InvalidDigitActsAsZero ==
    [][ /\ InvalidDigitsGetPattern0
        /\ (digit_sets' = digit_sets + 1 /\ digit_op'.digit \notin 0..9)
           => IF digit_op'.op = "set_digit"
              THEN clocks' = [cell \in Cells |->
                        clock_set_angles(clocks[cell],
                                         PatternAt(DIGIT_0, cell[1], cell[2]).hour,
                                         PatternAt(DIGIT_0, cell[1], cell[2]).minute, now)]
              ELSE clocks' = [cell \in Cells |->
                        clock_set_angles_immediate(clocks[cell],
                                         PatternAt(DIGIT_0, cell[1], cell[2]).hour,
                                         PatternAt(DIGIT_0, cell[1], cell[2]).minute)] ]_vars

\* set_digit(255) has run on a display that showed something else: the top
\* left clock holds digit 0's pair (90, 180)
C19_Witness ==
    /\ digit_op = [op |-> "set_digit", digit |-> 255]
    /\ digit_sets = 2
    /\ clocks[<<0, 0>>].hour_angle = 90
    /\ clocks[<<0, 0>>].minute_angle = 180
    /\ clocks[<<2, 1>>].cumulative_hour_angle # Deg(0)

\* C20: set_digit(d) calls set_angles exactly once on each of the 24 clocks,
\* with the pattern pair of the same (row, column); set_digit_immediate(d)
\* does the same through set_angles_immediate.
C20_SetDigitReachesEveryCell ==
    digit_op.op \in {"set_digit", "set_digit_immediate"} =>
        \A row \in 0..5 : \A col \in 0..3 :
            LET c == clocks[<<row, col>>]
                pos == PatternAt(get_digit_pattern(digit_op.digit), row, col)
            IN /\ calls[<<row, col>>] = digit_sets
               /\ c.hour_angle = pos.hour
               /\ c.minute_angle = pos.minute
               /\ IF digit_op.op = "set_digit"
                  THEN c.animation_start_time # None
                  ELSE /\ c.animation_start_time = None
                       /\ c.cumulative_hour_angle = Deg(pos.hour)
                       /\ c.cumulative_minute_angle = Deg(pos.minute)

\* the second set_digit of a display: digit 1, whose cell (2, 0) rests and
\* whose last cell holds (0, 270); every clock has been called twice
C20_Witness ==
    /\ digit_op = [op |-> "set_digit", digit |-> 1]
    /\ digit_sets = 2
    /\ clocks[<<2, 0>>].hour_angle = 135
    /\ ~clocks[<<2, 0>>].target_is_active
    /\ clocks[<<5, 3>>].minute_angle = 270
    /\ \A cell \in Cells : calls[cell] = 2

\* every clock of the display is Settled
DisplaySettled == \A cell \in Cells : clocks[cell].animation_start_time = None

\* C21: when a display that has settled on digit 8 receives set_digit(0),
\* every cell enters Animating; a cell whose pattern entry is the same in both
\* digits gets target cumulative angles equal to its current ones (zero
\* delta), and exactly the cells whose entries differ get a target cumulative
\* angle different from the current one.
C21_UnchangedCellsGetZeroDelta ==
    [][ ( /\ digit_sets' = digit_sets + 1
          /\ digit_op.digit = 8
          /\ digit_op.op # "new"
          /\ DisplaySettled
          /\ digit_op' = [op |-> "set_digit", digit |-> 0] )
        => \A cell \in Cells :
              LET same == PatternAt(DIGIT_8, cell[1], cell[2])
                             = PatternAt(DIGIT_0, cell[1], cell[2])
                  c == clocks'[cell]
              IN /\ c.animation_start_time # None
                 /\ c.cumulative_hour_angle = clocks[cell].cumulative_hour_angle
                 /\ c.cumulative_minute_angle = clocks[cell].cumulative_minute_angle
                 /\ same <=> ( /\ c.target_cumulative_hour = c.cumulative_hour_angle
                               /\ c.target_cumulative_minute = c.cumulative_minute_angle ) ]_vars

\* set_digit(0) has run on a display settled on digit 8: cell (2, 2), whose
\* minute entry goes from 270 to 180, is to turn forward by 270 degrees, and
\* cell (0, 0), the same in both digits, animates with a zero delta
C21_Witness ==
    /\ digit_op = [op |-> "set_digit", digit |-> 0]
    /\ digit_sets = 2
    /\ clocks[<<2, 2>>].cumulative_minute_angle = Deg(270)
    /\ clocks[<<2, 2>>].target_cumulative_minute = Deg(540)
    /\ clocks[<<0, 0>>].cumulative_hour_angle = Deg(90)
    /\ clocks[<<0, 0>>].target_cumulative_hour = Deg(90)
    /\ clocks[<<0, 0>>].animation_start_time # None

\* the decimal digits as characters, by value
DecimalDigits == << "0", "1", "2", "3", "4", "5", "6", "7", "8", "9" >>
IsDecimalDigit(ch) == \E v \in 0..9 : DecimalDigits[v + 1] = ch
DecimalValue(ch) == CHOOSE v \in 0..9 : DecimalDigits[v + 1] = ch

\* C22: an update dispatches, for each position i of the time string, the
\* decimal value of character i to digit display i and to no other, by
\* set_digit (update_time) or set_digit_immediate (update_time_immediate);
\* a display whose position holds no decimal digit, or no character at all,
\* is left unchanged, and characters beyond the last display go nowhere.
\* (update_time_immediate runs on the display reload_config has just built.)
C22_DispatchByPosition ==
    [][ updates' = updates + 1
        => LET before == IF update_op' = "update_time" THEN digits ELSE new_clock_display
           IN /\ DOMAIN digits' = DOMAIN before
              /\ \A i \in DOMAIN before :
                   IF i < Len(time_str') /\ IsDecimalDigit(time_str'[i + 1])
                   THEN /\ digits'[i].last =
                             Some([op |-> IF update_op' = "update_time"
                                          THEN "set_digit" ELSE "set_digit_immediate",
                                   digit |-> DecimalValue(time_str'[i + 1])])
                        /\ digits'[i].count = before[i].count + 1
                   ELSE digits'[i] = before[i] ]_vars

\* after 23:59:59 an update with the string "12:07:18" has skipped the
\* displays 2 and 5, which still show 5 and 9, and sent 1, 2, 0, 7 to the
\* displays 0, 1, 3, 4
C22_Witness ==
    /\ updates = 2
    /\ update_op = "update_time"
    /\ Len(time_str) = 8
    /\ digits[2] = [last |-> Some([op |-> "set_digit", digit |-> 5]), count |-> 1]
    /\ digits[5] = [last |-> Some([op |-> "set_digit", digit |-> 9]), count |-> 1]
    /\ digits[0].last = Some([op |-> "set_digit", digit |-> 1])
    /\ digits[3].last = Some([op |-> "set_digit", digit |-> 0])
    /\ digits[4] = [last |-> Some([op |-> "set_digit", digit |-> 7]), count |-> 2]

\* C23: a tick on a Settled clock changes no field of the clock and requests
\* no redraw; a tick on an Animating clock always requests a redraw, whether
\* it interpolates or settles.
C23_TickRedrawsIffAnimating ==
    [][ last_op' = "tick"
        => IF Settled
           THEN UNCHANGED clock /\ ~draw_queued'
           ELSE draw_queued' ]_vars

\* an interpolating tick, later than the start of the animation, has moved
\* the minute hand part of its way and asked for a redraw
C23_Witness ==
    /\ last_op = "tick"
    /\ Animating
    /\ draw_queued
    /\ now > animation_start_time[1]
    /\ start_cumulative_minute < cumulative_minute_angle
    /\ cumulative_minute_angle < target_cumulative_minute

\* C24: clocks are independent.  A set_angles, set_angles_immediate or tick
\* applied to one clock leaves every other clock of the group as it was; so
\* when the timers of the clocks fire at one instant, in any order, each
\* clock that has been ticked is what its own tick makes of its own state at
\* the start of the round, and each clock not yet ticked is as it was.
C24_ClocksAreIndependent ==
    [][ /\ \A other \in GroupCells :
              other # stepped'.cell => clocks'[other] = clocks[other]
        /\ \A cell \in GroupCells :
              clocks'[cell] = IF cell \in ticked'
                              THEN clock_update_animation(sweep_start'[cell], now')
                              ELSE sweep_start'[cell] ]_vars

\* a round of timers is complete at an instant at which the first clock has
\* settled away from 0 and the second is part of the way through its own,
\* later animation
C24_Witness ==
    /\ stepped.op = "tick"
    /\ ticked = GroupCells
    /\ clocks[<< 0, 0 >>].animation_start_time = None
    /\ clocks[<< 0, 0 >>].cumulative_hour_angle # 0
    /\ clocks[<< 0, 1 >>].animation_start_time # None
    /\ clocks[<< 0, 1 >>].cumulative_hour_angle > 0
    /\ clocks[<< 0, 1 >>].cumulative_hour_angle < clocks[<< 0, 1 >>].target_cumulative_hour

\* r is b with o merged into it: keys of b absent from o keep their value; a
\* key of o under which both hold a table holds the merge of the two tables;
\* any other key of o holds o's value
RECURSIVE IsDeepMerge(_, _, _)
IsDeepMerge(b, o, r) ==
    /\ DOMAIN r = DOMAIN b \cup DOMAIN o
    /\ \A k \in DOMAIN b \ DOMAIN o : r[k] = b[k]
    /\ \A k \in DOMAIN o :
          IF k \in DOMAIN b /\ b[k].kind = "table" /\ o[k].kind = "table"
          THEN /\ r[k].kind = "table"
               /\ IsDeepMerge(b[k].entries, o[k].entries, r[k].entries)
          ELSE r[k] = o[k]

\* C25: deep_merge_toml(base, overlay) leaves in base: for every key of
\* overlay, the recursive merge of the two tables when both hold a table
\* under that key, and otherwise the overlay value (replacing or added);
\* every key of base absent from overlay keeps its value, at every level.
C25_DeepMergeOverlaysRecursively ==
    [][ (merge_done' /\ ~merge_done)
        => /\ IsDeepMerge(merge_base, merge_overlay, merge_base')
           /\ merge_overlay' = merge_overlay ]_vars

\* a merge two levels down: under a.p the overlay's x replaced the base's x,
\* a.q and b were kept from the base
C25_Witness ==
    /\ merge_done
    /\ merge_overlay = [a |-> Tbl([p |-> Tbl([x |-> Scalar(2)])])]
    /\ merge_base = [a |-> Tbl([p |-> Tbl([x |-> Scalar(2)]), q |-> Scalar(1)]),
                     b |-> Scalar(1)]

\* the `include` array of the main file (empty when there is none)
MainIncludes ==
    LET main == files[DefaultPath]
    IN IF /\ main.state = "ok"
          /\ "include" \in DOMAIN main.table
          /\ main.table["include"].kind = "array"
       THEN main.table["include"].items
       ELSE << >>

\* the file an include item names
IncludedPath(item) == LinkTarget(resolve_include_path(BaseDir, item.str))

\* the item names a file that can be resolved, read and parsed
IsUsableInclude(item) ==
    item.kind = "string" /\ files[IncludedPath(item)].state = "ok"

\* the canonical paths of the includes that are merged, in list order
MergedIncludePaths ==
    LET usable == SelectSeq(MainIncludes, IsUsableInclude)
    IN [i \in 1..Len(usable) |-> IncludedPath(usable[i])]

\* the tables that contribute to the configuration: the main file's, then
\* those of the merged includes
ContributingTables ==
    << files[DefaultPath].table >>
        \o [i \in 1..Len(MergedIncludePaths) |-> files[MergedIncludePaths[i]].table]

\* what the last of tables[1..n] that says something about section.key makes
\* of it, scanning from the end: a value of the right type, a type error, or
\* nothing (the default applies).  `replaced` tells that a later table holds
\* a table under the section, which replaces an earlier value that is none.
RECURSIVE LastSetting(_, _, _, _, _, _)
LastSetting(tables, n, section, key, type, replaced) ==
    IF n = 0
    THEN [kind |-> "default"]
    ELSE IF section \notin DOMAIN tables[n]
         THEN LastSetting(tables, n - 1, section, key, type, replaced)
         ELSE IF tables[n][section].kind # "table"
              THEN IF replaced THEN [kind |-> "default"] ELSE [kind |-> "error"]
              ELSE IF key \notin DOMAIN tables[n][section].entries
                   THEN LastSetting(tables, n - 1, section, key, type, TRUE)
                   ELSE IF tables[n][section].entries[key].kind # type
                        THEN [kind |-> "error"]
                        ELSE [kind |-> "value",
                              value |-> IF type = "string"
                                        THEN tables[n][section].entries[key].str
                                        ELSE tables[n][section].entries[key].int]

LastColor ==
    LastSetting(ContributingTables, Len(ContributingTables),
                "colors", "clock_hand_color", "string", FALSE)
LastSize ==
    LastSetting(ContributingTables, Len(ContributingTables),
                "clock", "size", "integer", FALSE)

\* the main file is usable and no setting that wins has the wrong type
LoadSucceeds ==
    /\ files[DefaultPath].state = "ok"
    /\ LastColor.kind # "error"
    /\ LastSize.kind # "error"

\* C26: Config::load merges the includes on top of the main file in list
\* order: each setting has the value of the last file (main file first, then
\* the merged includes in order) that sets it, else its default; the
\* `include` key of an include brings in no file; an include that cannot be
\* resolved, read or parsed is skipped and does not fail the load; and
\* source_files is the main path followed by the canonical paths of exactly
\* the merged includes, in order.
C26_LoadMergesIncludesInOrder ==
    config_op = "load" =>
        LET r == load_result[1]
        IN /\ r.ok <=> LoadSucceeds
           /\ r.ok =>
                /\ r.source_files = << DefaultPath >> \o MergedIncludePaths
                /\ r.config.colors.clock_hand_color =
                       IF LastColor.kind = "value"
                       THEN LastColor.value ELSE DefaultConfig.colors.clock_hand_color
                /\ r.config.clock.size =
                       IF LastSize.kind = "value"
                       THEN LastSize.value ELSE DefaultConfig.clock.size

\* a load with the includes theme.toml, 7 and /etc/chronomatrix/local.toml:
\* the size is that of the last include (45, over 50 and 30), the colour that
\* of the first include (over the main file's), the integer item is skipped
C26_Witness ==
    /\ config_op = "load"
    /\ files[DefaultPath] =
          File([colors |-> Tbl([clock_hand_color |-> Str("#ff0000")]),
                clock |-> Tbl([size |-> Int32(30)]),
                include |-> Arr(<< Str("theme.toml"), Int32(7),
                                  Str("/etc/chronomatrix/local.toml") >>)])
    /\ files["/home/user/.config/chronomatrix/themes/dark.toml"] =
          File([clock |-> Tbl([size |-> Int32(50)]),
                colors |-> Tbl([clock_hand_color |-> Str("#abcdef")])])
    /\ files["/etc/chronomatrix/local.toml"] = File([clock |-> Tbl([size |-> Int32(45)])])
    /\ load_result =
          Some(Ok([colors |-> [clock_hand_color |-> "#abcdef"], clock |-> [size |-> 45]],
                  << DefaultPath,
                     "/home/user/.config/chronomatrix/themes/dark.toml",
                     "/etc/chronomatrix/local.toml" >>))

\* C27: Config::load_or_default always returns a result; whenever
\* Config::load fails (main file missing, unreadable, no valid TOML, or a
\* type mismatch in the merged table) the result is the default Config with
\* source_files holding exactly the default path.
C27_LoadOrDefaultFallsBack ==
    config_op = "load_or_default" =>
        LET r == load_result[1]
        IN /\ r.ok
           /\ r.source_files # << >>
           /\ r.source_files[1] = DefaultPath
           /\ (~LoadSucceeds \/ ~load(DefaultPath).ok)
                => r = Ok(DefaultConfig, << DefaultPath >>)

\* the main file is fine, but its include sets `clock` to a string: the
\* fallback is the default Config, and only the default path is a source
C27_Witness ==
    /\ config_op = "load_or_default"
    /\ files[DefaultPath] =
          File([clock |-> Tbl([size |-> Int32(30)]),
                include |-> Arr(<< Str("/etc/chronomatrix/local.toml") >>)])
    /\ files["/etc/chronomatrix/local.toml"] = File([clock |-> Str("big")])
    /\ load_result = Some(Ok(DefaultConfig, << DefaultPath >>))

\* a two-character component that is a pair of hex digits
IsHexPair(chars) ==
    Len(chars) = 2 /\ \A i \in 1..2 : to_digit_16(chars[i]) # None

\* C28: parse_hex_color returns a colour for every input string and never
\* fails: after the leading '#' are removed, a string whose length is
\* neither 6 nor 8 gives opaque black, and in a string of length 6 or 8
\* each two-character component that is no pair of hex digits gives 0 (255
\* for alpha).
C28_ParseHexColorTotal ==
    hex_color # None =>
        LET body == trim_start_matches(hex_string, "#")
            result == hex_color[1]
            invalid(k) == slice(body, 2 * k - 2, 2 * k) = None
                              \/ ~IsHexPair(slice(body, 2 * k - 2, 2 * k)[1])
        IN /\ ~result.panic
           /\ byte_len(body) \notin {6, 8} => result.rgba = << 0, 0, 0, 255 >>
           /\ byte_len(body) \in {6, 8} =>
                /\ \A k \in 1..3 : invalid(k) => result.rgba[k] = 0
                /\ (byte_len(body) = 8 /\ invalid(4)) => result.rgba[4] = 255

\* C29: if ticks keep occurring while time advances and no further
\* set_angles or set_angles_immediate is issued, an Animating clock
\* eventually becomes Settled, for every duration (0 included), and it does
\* so on the first tick whose elapsed time is at least the duration.
C29_AnimationTerminates ==
    /\ \A k \in 0..MaxSets :
          (Animating /\ sets = k) ~> ((Settled /\ sets = k) \/ sets > k)
    /\ [][ (Animating /\ Elapsed >= animation_duration_ms /\ last_op' = "tick")
              => Settled' ]_vars

C29_Witness ==
    /\ last_op = "tick"
    /\ last_set = "set_angles"
    /\ Settled
    /\ draw_queued
    /\ sets = MaxSets
    /\ animation_duration_ms = AnimDuration
    /\ now = MaxTime

\* a cross-fade between the active and the inactive look is in flight
CrossFadeInFlight ==
    /\ Animating
    /\ is_active # target_is_active
    /\ 0 < Elapsed
    /\ Elapsed < animation_duration_ms

\* C30: the cross-fade stays smooth across retargeting: when set_angles is
\* called while a cross-fade is in flight (is_active differs from
\* target_is_active, progress strictly between 0 and 1), the hand colour and
\* the centre-dot opacity drawn right after the call equal those drawn right
\* before it, whatever the new target's active state.
C30_CrossFadeSmoothAcrossRetarget ==
    [][ (CrossFadeInFlight /\ sets' = sets + 1 /\ last_op' = "set_angles")
          => /\ \A colors \in Palettes : hand_color(colors)' = hand_color(colors)
             /\ center_opacity' = center_opacity ]_vars

\* C31: in every reachable state in which the clock is Settled, each hand's
\* current cumulative angle equals its target cumulative angle and is_active
\* equals target_is_active.
C31_SettledAtTarget ==
    Settled =>
        /\ cumulative_hour_angle = target_cumulative_hour
        /\ cumulative_minute_angle = target_cumulative_minute
        /\ is_active = target_is_active

\* settled by a tick at the end of an animation towards the inactive look
C31_Witness ==
    /\ Settled
    /\ last_op = "tick"
    /\ last_set = "set_angles"
    /\ draw_queued
    /\ ~is_active
    /\ cumulative_hour_angle # 0

\* C32: in every reachable state in which the clock is Animating, with raw
\* angles in [0,360), each hand's current cumulative angle lies between its
\* start and its target: the interpolation neither undershoots the start
\* nor overshoots the target.
C32_InterpolationWithinBounds ==
    Animating =>
        /\ start_cumulative_hour <= cumulative_hour_angle
        /\ cumulative_hour_angle <= target_cumulative_hour
        /\ start_cumulative_minute <= cumulative_minute_angle
        /\ cumulative_minute_angle <= target_cumulative_minute

\* a tick has moved both hands strictly between start and target
C32_Witness ==
    /\ Animating
    /\ last_op = "tick"
    /\ start_cumulative_hour < cumulative_hour_angle
    /\ cumulative_hour_angle < target_cumulative_hour
    /\ start_cumulative_minute < cumulative_minute_angle
    /\ cumulative_minute_angle < target_cumulative_minute
    /\ sets > 1

\* C33: the reload-flag handshake: whenever should_reload is true, the poll
\* eventually runs reload_config and resets the flag; reload_config is never
\* run by a poll that observed the flag false; and the flag changes only in
\* a step of the thread that holds the mutex of reload_state.
C33_ReloadHandshake ==
    /\ reload_state.should_reload
          ~> (main_loop = "files" /\ ~reload_state.should_reload)
    /\ [][ /\ (main_loop' = "reload" /\ main_loop # "reload")
                => /\ reload_state.should_reload
                   /\ ~reload_state'.should_reload
                   /\ mutexes.reload_state = "main"
           /\ reloads' # reloads => main_loop = "reload"
           /\ reload_state' # reload_state
                => \/ mutexes.reload_state = "main" /\ main_loop = "locked"
                   \/ mutexes.reload_state = "watcher" /\ watcher_thread.pc = "decide"
         ]_vars

\* reload_config is running for a request of the thread, the flag is reset
C33_Witness ==
    /\ main_loop = "files"
    /\ reloads = 2
    /\ ~reload_state.should_reload
    /\ cause.reload # None
    /\ mutexes.reload_state = "main"

\* C34: debounce: the thread sets should_reload for a watched-file event
\* only if more than 300 ms have passed since last_reload, which then
\* becomes the instant of that decision; so two accepted requests are more
\* than 300 ms apart, and a burst of write events within that window
\* triggers at most one reload: two reloads are never caused by events
\* written less than 300 ms apart.
C34_DebounceOneReloadPerBurst ==
    [][ /\ (reload_state'.should_reload /\ reload_state' # reload_state)
            => /\ (instant - reload_state.last_reload) * TimeStep
                      > CONFIG_RELOAD_DEBOUNCE_MS
               /\ reload_state'.last_reload = instant
        /\ (reloads' = reloads + 1 /\ cause.reload # None)
            => (cause.request[1] - cause.reload[1]) * TimeStep
                  >= CONFIG_RELOAD_DEBOUNCE_MS
      ]_vars

\* C35: hot reload eventually reflects the final file content: after the
\* last modification of the watched config file, a reload_config that reads
\* the configuration after that modification eventually runs.
C35_ReloadReflectsFinalContent == <>[](shown_version = disk_version)

\* the mutex a thread is waiting for, "none" when it is not waiting
PollWaitsFor == IF main_loop = "files" THEN "watched_files" ELSE "none"
WatcherWaitsFor ==
    CASE watcher_thread.pc = "filter" -> "watched_files"
      [] watcher_thread.pc = "sleep" -> "reload_state"
      [] OTHER -> "none"

\* C36: the thread and the main thread never deadlock on the two mutexes:
\* neither waits for a mutex of the other while the other waits for one of
\* its own; the main thread takes watched_files while holding reload_state,
\* and the thread never holds watched_files while it acquires reload_state.
C36_NoDeadlockOnMutexes ==
    /\ ~ /\ PollWaitsFor # "none"
          /\ WatcherWaitsFor # "none"
          /\ mutexes[PollWaitsFor] = "watcher"
          /\ mutexes[WatcherWaitsFor] = "main"
    /\ main_loop = "files" => mutexes.reload_state = "main"
    /\ watcher_thread.pc \in {"sleep", "decide"} => mutexes.watched_files # "watcher"

\* reload_config waits for watched_files, which the thread holds in
\* is_watched_file_event
C36_Witness ==
    /\ main_loop = "files"
    /\ mutexes.reload_state = "main"
    /\ watcher_thread.pc = "filtering"
    /\ mutexes.watched_files = "watcher"

\* the clock at `cell` of digit i shows, settled, the pattern of the i-th
\* character of the formatted time s
ShowsPattern(d, s, i, cell) ==
    LET c == d.digits[i][cell]
        position == PatternAt(get_digit_pattern(to_digit(s[i + 1])[1]), cell[1], cell[2])
    IN /\ c.animation_start_time = None
       /\ c.cumulative_hour_angle = Deg(position.hour)
       /\ c.cumulative_minute_angle = Deg(position.minute)
       /\ c.target_cumulative_hour = Deg(position.hour)
       /\ c.target_cumulative_minute = Deg(position.minute)

\* C37: after reload_config every clock of the newly created display is
\* Settled, with cumulative angles equal to the pattern angles of the current
\* time's digits, and the ticks that follow change nothing: nothing animates
\* from the old display's or from the fresh clocks' positions.
C37_ReloadedDisplayIsSettled ==
    (window_op.op = "reload_config"
        \/ (window_op.op = "tick" /\ timer_target # Some(clock_display.id)
                /\ clock_display.id > 0))
        => \A i \in Positions, cell \in Cells :
               ShowsPattern(clock_display, window_op.time, i, cell)

\* a second reload, at a later instant, after the timer has animated the
\* display of the first
C37_Witness ==
    /\ window_op.op = "reload_config"
    /\ clock_display.id = 2
    /\ timer_target = Some(1)
    /\ now > 0
    /\ window_op.time = << "2", "3", "5", "9", "5", "9" >>

\* C38: the one-second tick always dispatches to the display installed in
\* the window: after any number of reloads it calls update_time on the
\* display created by the most recent reload_config, never on a replaced one.
C38_TickUpdatesInstalledDisplay ==
    [][ (window_op'.op = "update_time" /\ window_steps' = window_steps + 1)
          => /\ timer_target' = Some(window_child)
             /\ window_child = clock_display.id
             /\ clock_display'.id = window_child' ]_vars

\* a tick after two reloads
C38_Witness ==
    /\ window_op.op = "update_time"
    /\ timer_target = Some(2)
    /\ window_child = 2
====
